---- MODULE Spec2Model ----
(***************************************************************************)
(* BAUx2: a model of the two evaluators of the repository.                 *)
(*                                                                         *)
(*   run_interpreter (src/src/interpreter.rs): lexer, WA / CO / BAU /      *)
(*   PONDE dispatcher writing diagnostics into an output buffer.           *)
(*   main            (src/src/main.rs): lexer, WA / BAU / CO / PONDE /     *)
(*   FUWA / MOCO / PE / ROPE / RO / NOEH dispatcher printing to stdout and *)
(*   panicking on errors.                                                  *)
(*                                                                         *)
(* Text is a sequence of one-character strings.  A token is such a         *)
(* sequence.  The output buffer is a sequence of fragments: a fragment is  *)
(* one character, or one fixed text of the source (a diagnostic message,   *)
(* "true", "false") kept as a single string; no fixed text holds a newline.*)
(***************************************************************************)
EXTENDS Integers, Sequences, FiniteSets, TLC

VARIABLES
    tokens,                  \* Vec<String> produced by the lexer
    pc,                      \* index of the token to dispatch, 0-based as in the source
    variables,               \* HashMap<String, Value>
    output,                  \* the output buffer (run_interpreter) / stdout (main)
    condition_stack,         \* Vec<bool>
    block_executed,          \* main: chain flag
    suppress_class_messages, \* cleared by a leading CHIHUAHUA
    status,                  \* "run" | "loop" | "done" | "panic"
    lp,                      \* run_interpreter: the PONDE loop in progress
    calls,                   \* number of calls of run_interpreter made by the caller
    output_in,               \* the buffer as the caller passed it to the current call
    code_in                  \* code: the source text of the current call

vars == <<tokens, pc, variables, output, condition_stack, block_executed,
          suppress_class_messages, status, lp, calls, output_in, code_in>>

-----------------------------------------------------------------------------
(* Text helpers                                                            *)

NL == "\n"
QUOTE == "\""

\* char::is_whitespace on the characters of the model's alphabet
IsWhitespace(c) == c \in {" ", NL, "\t"}

Digits == <<"0", "1", "2", "3", "4", "5", "6", "7", "8", "9">>

IsDigit(c) == \E i \in 1..10 : Digits[i] = c

DigitVal(c) == (CHOOSE i \in 1..10 : Digits[i] = c) - 1

\* str::starts_with(char) / str::ends_with(char)
StartsWith(t, c) == Len(t) > 0 /\ t[1] = c
EndsWith(t, c) == Len(t) > 0 /\ t[Len(t)] = c

\* &t[1..t.len() - 1]: the slice panics when 1 > t.len() - 1
InnerOk(t) == Len(t) >= 2
InnerKeepsDelimiters(t) == t
Inner(t) == SubSeq(t, 2, Len(t) - 1)

RECURSIVE TrimStart(_)
TrimStart(s) ==
    IF s # <<>> /\ IsWhitespace(s[1]) THEN TrimStart(Tail(s)) ELSE s

RECURSIVE TrimEnd(_)
TrimEnd(s) ==
    IF s # <<>> /\ IsWhitespace(s[Len(s)])
    THEN TrimEnd(SubSeq(s, 1, Len(s) - 1)) ELSE s

\* str::trim
Trim(s) == TrimEnd(TrimStart(s))

\* str::split_whitespace: the maximal runs of non-whitespace characters
RECURSIVE SplitWs(_, _, _)
SplitWs(s, cur, acc) ==
    IF s = <<>> THEN (IF cur = <<>> THEN acc ELSE Append(acc, cur))
    ELSE IF IsWhitespace(s[1])
         THEN SplitWs(Tail(s), <<>>, IF cur = <<>> THEN acc ELSE Append(acc, cur))
         ELSE SplitWs(Tail(s), Append(cur, s[1]), acc)

SplitWhitespace(s) == SplitWs(s, <<>>, <<>>)

IsPrefixAt(s, pat, i) ==
    /\ i + Len(pat) - 1 <= Len(s)
    /\ SubSeq(s, i, i + Len(pat) - 1) = pat

\* str::split(pat): the pieces between the non-overlapping matches, left to right
RECURSIVE SplitAt(_, _, _, _, _)
SplitAt(s, pat, i, cur, acc) ==
    IF i > Len(s) THEN Append(acc, cur)
    ELSE IF IsPrefixAt(s, pat, i)
         THEN SplitAt(s, pat, i + Len(pat), <<>>, Append(acc, cur))
         ELSE SplitAt(s, pat, i + 1, Append(cur, s[i]), acc)

Split(s, pat) == SplitAt(s, pat, 1, <<>>, <<>>)

\* str::replace(pat, to): every non-overlapping match, left to right
RECURSIVE ReplaceAt(_, _, _, _, _)
ReplaceAt(s, pat, to, i, acc) ==
    IF i > Len(s) THEN acc
    ELSE IF IsPrefixAt(s, pat, i)
         THEN ReplaceAt(s, pat, to, i + Len(pat), acc \o to)
         ELSE ReplaceAt(s, pat, to, i + 1, Append(acc, s[i]))

\* a replacement that finds no match
ReplaceNothing(s, pat, to) == s

Replace(s, pat, to) == ReplaceAt(s, pat, to, 1, <<>>)

-----------------------------------------------------------------------------
(* Numbers.  Value::Num holds an f64; the model's literals are decimal     *)
(* integers of a few digits, all exactly representable, so a Num is an     *)
(* integer.  The alphabet has no '.', 'e', "inf" or "nan" numerals and no  *)
(* negative zero.  A result of `/` or `%` that is no integer is kept as    *)
(* one value, "not whole".                                                 *)

RECURSIVE DigitsValue(_, _)
DigitsValue(s, acc) ==
    IF s = <<>> THEN acc ELSE DigitsValue(Tail(s), 10 * acc + DigitVal(s[1]))

AllDigits(s) == s # <<>> /\ \A i \in 1..Len(s) : IsDigit(s[i])

\* str::parse::<f64>: an optional sign and a non-empty run of digits
ParseF64(t) ==
    LET signed == t # <<>> /\ t[1] \in {"+", "-"}
        body == IF signed THEN Tail(t) ELSE t
    IN IF AllDigits(body)
       THEN [ok |-> TRUE,
             n |-> IF signed /\ t[1] = "-" THEN 0 - DigitsValue(body, 0)
                   ELSE DigitsValue(body, 0)]
       ELSE [ok |-> FALSE, n |-> 0]

RECURSIVE NatDigits(_)
NatDigits(n) ==
    IF n < 10 THEN <<Digits[n + 1]>>
    ELSE Append(NatDigits(n \div 10), Digits[(n % 10) + 1])

\* Display of an integral f64 (and i64::to_string): no decimal point, '-' if negative
FmtNum(n) == IF n < 0 THEN <<"-">> \o NatDigits(0 - n) ELSE NatDigits(n)

\* Display of a Value::Num.  The digits of a quotient or remainder that is not
\* a whole number (or is infinite, or NaN) are not computed: one fragment
\* stands for them, distinct from every rendering of an integer.
FmtVNum(v) == IF v.whole THEN FmtNum(v.n) ELSE <<"(not a whole number)">>

\* Display of a bool
FmtBool(b) == IF b THEN <<"true">> ELSE <<"false">>

-----------------------------------------------------------------------------
(* Values and the environment                                              *)

VBool(b) == [t |-> "Bool", b |-> b]
VStr(s) == [t |-> "Str", s |-> s]
VNum(n) == [t |-> "Num", n |-> n, whole |-> TRUE]
\* a Num that is no integer; the model does not tell such values apart
VNotWhole == [t |-> "Num", n |-> 0, whole |-> FALSE]
\* the Value::Num of an evaluator result
VOf(r) == IF r.whole THEN VNum(r.n) ELSE VNotWhole

\* HashMap::contains_key / get / insert
Bound(m, k) == k \in DOMAIN m
Insert(m, k, v) == [x \in (DOMAIN m) \cup {k} |-> IF x = k THEN v ELSE m[x]]
EmptyMap == [x \in {} |-> 0]

\* the variant a lookup yields: "Str" | "Bool" | "Num" | "None"
Kind(m, k) == IF Bound(m, k) THEN m[k].t ELSE "None"

-----------------------------------------------------------------------------
(* run_interpreter: the lexer                                              *)

LexInit ==
    [tokens |-> <<>>, in_quote |-> FALSE, in_arithmetic |-> FALSE,
     current_token |-> <<>>, arithmetic_expr |-> <<>>, skip_line |-> FALSE]

FlushNothing(st) == st

\* tokens.push(current_token.clone()); current_token.clear(), when it is not empty
Flush(st) ==
    IF st.current_token = <<>> THEN st
    ELSE [st EXCEPT !.tokens = Append(@, st.current_token), !.current_token = <<>>]

\* tokens.push(format!("<{}>", arithmetic_expr.trim()))
ArithToken(e) == <<"<">> \o Trim(e) \o <<">">>

\* one pass of `for c in code.chars()`
LexStep(st, c) ==
    IF st.skip_line
    THEN (IF c = NL THEN [st EXCEPT !.skip_line = FALSE] ELSE st)
    ELSE IF c = ";" THEN [st EXCEPT !.skip_line = TRUE]
    ELSE IF c = "<" /\ ~st.in_quote
         THEN [Flush(st) EXCEPT !.in_arithmetic = TRUE]
    ELSE IF c = ">" /\ ~st.in_quote /\ st.in_arithmetic
         THEN IF st.arithmetic_expr # <<>>
              THEN [st EXCEPT !.tokens = Append(@, ArithToken(st.arithmetic_expr)),
                              !.arithmetic_expr = <<>>,
                              !.in_arithmetic = FALSE]
              ELSE [st EXCEPT !.in_arithmetic = FALSE]
    ELSE IF c = QUOTE
         THEN IF ~st.in_arithmetic
              THEN IF st.in_quote
                   THEN [st EXCEPT !.in_quote = FALSE,
                                   !.tokens = Append(@, Append(st.current_token, c)),
                                   !.current_token = <<>>]
                   ELSE [st EXCEPT !.in_quote = TRUE,
                                   !.current_token = Append(@, c)]
              ELSE [st EXCEPT !.arithmetic_expr = Append(@, c)]
    ELSE IF c = "=" /\ ~st.in_quote /\ ~st.in_arithmetic
         THEN [Flush(st) EXCEPT !.tokens = Append(Flush(st).tokens, <<"=">>)]
    ELSE IF IsWhitespace(c) /\ ~st.in_quote /\ ~st.in_arithmetic
         THEN Flush(st)
    ELSE IF st.in_arithmetic
         THEN [st EXCEPT !.arithmetic_expr = Append(@, c)]
    ELSE [st EXCEPT !.current_token = Append(@, c)]

\* `for c in code.chars()` over code[lo..hi], left to right.  The range is halved
\* and the state after the left half is computed before the right half is entered,
\* which keeps the evaluation of a long text shallow.
RECURSIVE LexLoop(_, _, _, _)
LexLoop(st, code, lo, hi) ==
    IF lo > hi THEN st
    ELSE IF lo = hi THEN LexStep(st, code[lo])
    ELSE LET mid == (lo + hi) \div 2
             left == LexLoop(st, code, lo, mid)
         IN IF left.skip_line \in BOOLEAN
            THEN LexLoop(left, code, mid + 1, hi)
            ELSE left

\* the two flushes after the loop
LexFinish(st) ==
    LET t1 == Flush(st).tokens
    IN IF st.arithmetic_expr # <<>>
       THEN Append(t1, ArithToken(st.arithmetic_expr))
       ELSE t1

Lex(code) == LexFinish(LexLoop(LexInit, code, 1, Len(code)))

-----------------------------------------------------------------------------
(* run_interpreter: the expression evaluator.  A result is                 *)
(* [ok |-> TRUE, n |-> number] or [ok |-> FALSE, err |-> diagnostic].      *)

Ok(n) == [ok |-> TRUE, n |-> n, whole |-> TRUE, err |-> <<>>]
Err(e) == [ok |-> FALSE, n |-> 0, whole |-> TRUE, err |-> e]
\* an f64 result that is no integer (a fraction, an infinity, NaN)
OkNotWhole == [ok |-> TRUE, n |-> 0, whole |-> FALSE, err |-> <<>>]

Abs(n) == IF n < 0 THEN 0 - n ELSE n
Max0(n) == IF n < 0 THEN 0 ELSE n

evaluate_operand(operand, m) ==
    IF Bound(m, operand)
    THEN CASE m[operand].t = "Num" ->
                IF m[operand].whole THEN Ok(m[operand].n) ELSE OkNotWhole
           [] m[operand].t = "Bool" -> Ok(IF m[operand].b THEN 1 ELSE 0)
           [] OTHER -> Err(<<"[ERROR: InvalidValue]: Variable not found or invalid type">>)
    ELSE IF operand = <<"F", "L", "U", "F", "F", "Y">> THEN Ok(1)
    ELSE IF operand = <<"F", "U", "Z", "Z", "Y">> THEN Ok(0)
    ELSE IF ParseF64(operand).ok THEN Ok(ParseF64(operand).n)
    ELSE Err(<<"[ERROR: InvalidValue]: '">> \o operand \o <<"' is an invalid number">>)

\* an evaluator that reads an operator it does not know as `+`
ArithOpUnknownAsPlus(op, l, r) ==
    CASE op = <<"-">> -> Ok(l - r)
      [] op = <<"*">> -> Ok(l * r)
      [] OTHER -> Ok(l + r)

\* the f64 operators on two integers: `/` and `%` are exact when the result is an
\* integer (`%` takes the sign of the dividend); otherwise the result is not whole
ArithOp(op, l, r) ==
    CASE op = <<"+">> -> Ok(l + r)
      [] op = <<"-">> -> Ok(l - r)
      [] op = <<"*">> -> Ok(l * r)
      [] op = <<"/">> -> IF r # 0 /\ Abs(l) % Abs(r) = 0
                         THEN Ok(IF (l < 0) # (r < 0)
                                 THEN 0 - (Abs(l) \div Abs(r))
                                 ELSE Abs(l) \div Abs(r))
                         ELSE OkNotWhole
      [] op = <<"%">> -> IF r # 0
                         THEN Ok(IF l < 0 THEN 0 - (Abs(l) % Abs(r))
                                 ELSE l % Abs(r))
                         ELSE OkNotWhole
      [] OTHER -> Err(<<"[ERROR: InvalidOperator]: Operator is not supported">>)

IsOperator(op) == op \in {<<"+">>, <<"-">>, <<"*">>, <<"/">>, <<"%">>}

evaluate_arithmetic(expr, m) ==
    LET parts == SplitWhitespace(Trim(expr))
    IN IF Len(parts) # 3
       THEN IF Len(parts) = 1
            THEN IF ParseF64(parts[1]).ok THEN Ok(ParseF64(parts[1]).n)
                 ELSE Err(<<"[ERROR: InvalidValue]: Invalid number/expression">>)
            ELSE Err(<<"[ERROR: InvalidExpression]: Expecting 'value operator value'">>)
       ELSE LET left == evaluate_operand(parts[1], m)
                right == evaluate_operand(parts[3], m)
            IN IF ~left.ok THEN left
               ELSE IF ~right.ok THEN right
               ELSE IF IsOperator(parts[2]) /\ ~(left.whole /\ right.whole)
                    THEN OkNotWhole
               ELSE ArithOp(parts[2], left.n, right.n)

-----------------------------------------------------------------------------
(* Keywords and tokens                                                     *)

kWA == <<"W", "A">>
kCO == <<"C", "O">>
kBAU == <<"B", "A", "U">>
kPONDE == <<"P", "O", "N", "D", "E">>
kKIRA == <<"K", "I", "R", "A">>
kBAULEAN == <<"B", "A", "U", "L", "E", "A", "N">>
kMOE == <<"M", "O", "E">>
kFLUFFY == <<"F", "L", "U", "F", "F", "Y">>
kFUZZY == <<"F", "U", "Z", "Z", "Y">>
kCHIHUAHUA == <<"C", "H", "I", "H", "U", "A", "H", "U", "A">>
kEQ == <<"=">>
kOPEN == <<"{">>
kCLOSE == <<"}">>
kDOTS == <<".", ".">>
kCOUNTER == <<"c", "o", "u", "n", "t", "e", "r">>

\* the keywords and markers of main
kFUWA == <<"F", "U", "W", "A">>
kMOCO == <<"M", "O", "C", "O">>
kPE == <<"P", "E">>
kROPE == <<"R", "O", "P", "E">>
kRO == <<"R", "O">>
kNOEH == <<"N", "O", "E", "H">>
kENDPONDE == <<"E", "N", "D", "P", "O", "N", "D", "E">>
kGT == <<">">>

\* tokens[i], 0-based as in the source
Tok(i) == tokens[i + 1]
NTok == Len(tokens)

\* a gate that re-checks every enclosing level, not only the top
ShouldExecuteAllLevels ==
    \A j \in 1..Len(condition_stack) : condition_stack[j]

\* condition_stack.last().copied().unwrap_or(true)
should_execute ==
    IF condition_stack = <<>> THEN TRUE ELSE condition_stack[Len(condition_stack)]

\* the leading-flag test made before the dispatch loop
HasFlag(toks) == Len(toks) > 0 /\ toks[1] = kCHIHUAHUA
StartPc(toks) == IF HasFlag(toks) THEN 1 ELSE 0

\* a record pushed without its newline
LineNoNewline(text) == text

\* output.push_str(&format!("{}\n", text))
Line(text) == text \o <<NL>>

-----------------------------------------------------------------------------
(* run_interpreter: the value of an initializer.  A result is              *)
(*   [k |-> "ok", val |-> Value]     the value to bind                     *)
(*   [k |-> "err", err |-> text]     a diagnostic, followed by `continue`  *)
(*   [k |-> "panic"]                 the slice &v[1..v.len() - 1] panics   *)

ROk(v) == [k |-> "ok", val |-> v, err |-> <<>>]
RErr(e) == [k |-> "err", val |-> VBool(FALSE), err |-> e]
RPanic == [k |-> "panic", val |-> VBool(FALSE), err |-> <<>>]

\* the "KIRA" arm: a quoted string, or a variable bound to a Str
KiraValue(v, m, msg) ==
    IF StartsWith(v, QUOTE) /\ EndsWith(v, QUOTE)
    THEN (IF InnerOk(v) THEN ROk(VStr(Inner(v))) ELSE RPanic)
    ELSE IF Kind(m, v) = "Str" THEN ROk(m[v])
    ELSE RErr(msg)

\* the "BAULEAN" arm: FLUFFY, FUZZY, or a variable bound to a Bool
BauleanValue(v, m, msg) ==
    IF v = kFLUFFY THEN ROk(VBool(TRUE))
    ELSE IF v = kFUZZY THEN ROk(VBool(FALSE))
    ELSE IF Kind(m, v) = "Bool" THEN ROk(m[v])
    ELSE RErr(msg)

\* the "MOE" arm: a bracketed expression, a number, or a variable bound to a Num.
\* In a loop body (inLoop) the expression is first rewritten by
\* expr.replace("counter", &i.to_string())
MoeValue(v, m, msg, inLoop, i) ==
    IF StartsWith(v, "<") /\ EndsWith(v, ">")
    THEN IF InnerOk(v)
         THEN LET expr == IF inLoop THEN Replace(Inner(v), kCOUNTER, FmtNum(i))
                          ELSE Inner(v)
                  r == evaluate_arithmetic(expr, m)
              IN IF r.ok THEN ROk(VOf(r)) ELSE RErr(r.err)
         ELSE RPanic
    ELSE IF ParseF64(v).ok THEN ROk(VNum(ParseF64(v).n))
    ELSE IF Kind(m, v) = "Num" THEN ROk(m[v])
    ELSE RErr(msg)

\* top level, WA: `match var_type.as_str()`
WAValue(var_type, v, m) ==
    CASE var_type = kKIRA ->
           KiraValue(v, m, <<"[ERROR: IncompatibleType]: KIRA does not support a nonstring">>)
      [] var_type = kBAULEAN ->
           BauleanValue(v, m, <<"[ERROR: IncompatibleType]: BAULEAN requires FLUFFY/FUZZY or a declared BAULEAN-type variable">>)
      [] var_type = kMOE ->
           MoeValue(v, m, <<"[ERROR: InvalidValue]: Invalid number/arithmetic expression">>,
                    FALSE, 0)
      [] OTHER -> RErr(<<"Unknown type: ">> \o var_type)

\* a reassignment that takes the variant from the new value, not from the binding
COValueFromToken(existing, v, m) ==
    IF StartsWith(v, QUOTE) THEN KiraValue(v, m, <<"[ERROR: IncompatibleType]">>)
    ELSE IF v \in {kFLUFFY, kFUZZY} THEN BauleanValue(v, m, <<"[ERROR: IncompatibleType]">>)
    ELSE MoeValue(v, m, <<"[ERROR: IncompatibleType]">>, FALSE, 0)

\* top level, CO: `match existing_type`, for a bound name
COValue(existing, v, m) ==
    CASE existing = "Str" ->
           KiraValue(v, m, <<"[ERROR: IncompatibleType]: CO requires matching type (KIRA)">>)
      [] existing = "Bool" ->
           BauleanValue(v, m, <<"[ERROR: IncompatibleType]: CO requires matching type (BAULEAN)">>)
      [] existing = "Num" ->
           MoeValue(v, m, <<"[ERROR: IncompatibleType]: CO requires matching type (MOE)">>,
                    FALSE, 0)

\* loop body, WA
LoopWAValue(var_type, v, m, i) ==
    CASE var_type = kMOE ->
           MoeValue(v, m, <<"[ERROR: InvalidValue]: Invalid number/arithmetic expression">>,
                    TRUE, i)
      [] var_type = kKIRA ->
           KiraValue(v, m, <<"[ERROR: IncompatibleType]: KIRA does not support a nonstring">>)
      [] var_type = kBAULEAN ->
           BauleanValue(v, m, <<"[ERROR: IncompatibleType]: BAULEAN requires FLUFFY/FUZZY or boolean variable">>)
      [] OTHER -> RErr(<<"Unknown type: ">> \o var_type)

\* loop body, CO: only a Num is reassigned; any other variant is `continue`,
\* with no diagnostic (k = "skip")
LoopCOValue(existing, v, m, i) ==
    IF existing = "Num"
    THEN MoeValue(v, m, <<"[ERROR: IncompatibleType]: CO requires matching type (MOE)">>,
                  TRUE, i)
    ELSE [k |-> "skip", val |-> VBool(FALSE), err |-> <<>>]

\* a print that renders a Bool as a number
PrintTextBoolAsNum(token, m, unbound) ==
    IF StartsWith(token, QUOTE) /\ EndsWith(token, QUOTE)
    THEN (IF InnerOk(token) THEN ROk(Line(Inner(token))) ELSE RPanic)
    ELSE CASE Kind(m, token) = "Str" -> ROk(Line(m[token].s))
           [] Kind(m, token) = "Bool" -> ROk(Line(IF m[token].b THEN <<"1">> ELSE <<"0">>))
           [] Kind(m, token) = "Num" -> ROk(Line(FmtVNum(m[token])))
           [] OTHER -> ROk(Line(unbound \o token))

\* BAU: what a print appends
PrintText(token, m, unbound) ==
    IF StartsWith(token, QUOTE) /\ EndsWith(token, QUOTE)
    THEN (IF InnerOk(token) THEN ROk(Line(Inner(token))) ELSE RPanic)
    ELSE CASE Kind(m, token) = "Str" -> ROk(Line(m[token].s))
           [] Kind(m, token) = "Bool" -> ROk(Line(FmtBool(m[token].b)))
           [] Kind(m, token) = "Num" -> ROk(Line(FmtVNum(m[token])))
           [] OTHER -> ROk(Line(unbound \o token))

-----------------------------------------------------------------------------
(* run_interpreter: the dispatch loop, one action per arm of the match     *)

NoLoop == [var |-> <<>>, i |-> 0, end |-> 0, loop_body_start |-> 0,
           loop_body_end |-> 0, inner_pc |-> 0, phase |-> "none"]

Running == status = "run" /\ pc < NTok

\* the first index >= from holding "}", or tokens.len()
RECURSIVE FindClose(_)
FindClose(from) ==
    IF from < NTok /\ Tok(from) # kCLOSE THEN FindClose(from + 1) ELSE from

\* Some("WA") if pc + 4 < tokens.len()
WA ==
    /\ Running
    /\ Tok(pc) = kWA
    /\ pc + 4 < NTok
    /\ IF ~should_execute
       THEN /\ pc' = pc + 1
            /\ UNCHANGED <<variables, output, status>>
       ELSE IF Tok(pc + 3) # kEQ
       THEN \* break
            /\ output' = output \o Line(<<"[ERROR: Syntax]: Expected '=' after variable name">>)
            /\ pc' = pc + 3
            /\ status' = "done"
            /\ UNCHANGED variables
       ELSE LET r == WAValue(Tok(pc + 1), Tok(pc + 4), variables)
            IN CASE r.k = "ok" ->
                      /\ variables' = Insert(variables, Tok(pc + 2), r.val)
                      /\ pc' = pc + 5
                      /\ UNCHANGED <<output, status>>
                 [] r.k = "err" ->
                      \* continue, with pc on the initializer
                      /\ output' = output \o Line(r.err)
                      /\ pc' = pc + 4
                      /\ UNCHANGED <<variables, status>>
                 [] r.k = "panic" ->
                      /\ status' = "panic"
                      /\ pc' = pc + 4
                      /\ UNCHANGED <<variables, output>>
    /\ UNCHANGED <<tokens, code_in, condition_stack, block_executed, suppress_class_messages,
                   lp, calls, output_in>>

\* Some("CO") if pc + 3 < tokens.len()
CO ==
    /\ Running
    /\ Tok(pc) = kCO
    /\ pc + 3 < NTok
    /\ IF ~should_execute
       THEN /\ pc' = pc + 1
            /\ UNCHANGED <<variables, output, status>>
       ELSE IF Tok(pc + 2) # kEQ
       THEN \* break
            /\ output' = output \o Line(<<"[ERROR: Syntax]: Expected '=' in reassingment">>)
            /\ pc' = pc + 2
            /\ status' = "done"
            /\ UNCHANGED variables
       ELSE IF ~Bound(variables, Tok(pc + 1))
       THEN \* continue
            /\ output' = output \o
                 Line(<<"[ERROR: VanishValue]: Variable could not be found in scope: ">>
                      \o Tok(pc + 1))
            /\ pc' = pc + 3
            /\ UNCHANGED <<variables, status>>
       ELSE LET r == COValue(Kind(variables, Tok(pc + 1)), Tok(pc + 3), variables)
            IN CASE r.k = "ok" ->
                      /\ variables' = Insert(variables, Tok(pc + 1), r.val)
                      /\ pc' = pc + 4
                      /\ UNCHANGED <<output, status>>
                 [] r.k = "err" ->
                      /\ output' = output \o Line(r.err)
                      /\ pc' = pc + 3
                      /\ UNCHANGED <<variables, status>>
                 [] r.k = "panic" ->
                      /\ status' = "panic"
                      /\ pc' = pc + 3
                      /\ UNCHANGED <<variables, output>>
    /\ UNCHANGED <<tokens, code_in, condition_stack, block_executed, suppress_class_messages,
                   lp, calls, output_in>>

\* Some("BAU") if pc + 1 < tokens.len()
BAU ==
    /\ Running
    /\ Tok(pc) = kBAU
    /\ pc + 1 < NTok
    /\ IF ~should_execute
       THEN /\ pc' = pc + 2
            /\ UNCHANGED <<output, status>>
       ELSE LET r == PrintText(Tok(pc + 1), variables,
                               <<"[ERROR: VanishValue]: Variable couldn't be found: ">>)
            IN IF r.k = "panic"
               THEN /\ status' = "panic"
                    /\ pc' = pc + 1
                    /\ UNCHANGED output
               ELSE /\ output' = output \o r.val
                    /\ pc' = pc + 2
                    /\ UNCHANGED status
    /\ UNCHANGED <<tokens, code_in, variables, condition_stack, block_executed,
                   suppress_class_messages, lp, calls, output_in>>

\* what the PONDE header yields before the loop starts: a diagnostic and the
\* position `continue` resumes at, or the loop to run
PondeHeader ==
    LET range == Split(Tok(pc + 2), kDOTS)
    IN IF Len(range) # 2
       THEN [err |-> <<"[ERROR: Syntax]: Invalid range. Expected 'startInt..endInt'">>,
             at |-> pc + 2]
       ELSE IF ~ParseF64(range[1]).ok
       THEN [err |-> <<"[ERROR: InvalidRange]: Start value must be an integer">>,
             at |-> pc + 2]
       ELSE IF ~ParseF64(range[2]).ok
       THEN [err |-> <<"[ERROR: InvalidRange]: End value must be an integer">>,
             at |-> pc + 2]
       ELSE IF Tok(pc + 3) # kOPEN
       THEN [err |-> <<"[ERROR: Syntax]: Expected '{' to begin the loop">>,
             at |-> pc + 3]
       ELSE IF FindClose(pc + 4) = NTok
       THEN [err |-> <<"[ERROR: Syntax]: Could not find closing '}' for loop">>,
             at |-> pc + 4]
       ELSE [err |-> <<>>, at |-> pc + 4]

\* Some("PONDE") if pc + 3 < tokens.len(): up to the first pass of `for`
PONDE ==
    /\ Running
    /\ Tok(pc) = kPONDE
    /\ pc + 3 < NTok
    /\ IF ~should_execute
       THEN /\ pc' = FindClose(pc) + 1
            /\ UNCHANGED <<output, status, lp>>
       ELSE IF PondeHeader.err # <<>>
       THEN \* continue
            /\ output' = output \o Line(PondeHeader.err)
            /\ pc' = PondeHeader.at
            /\ UNCHANGED <<status, lp>>
       ELSE /\ pc' = pc + 4
            /\ status' = "loop"
            /\ lp' = [var |-> Tok(pc + 1),
                      i |-> ParseF64(Split(Tok(pc + 2), kDOTS)[1]).n,
                      end |-> ParseF64(Split(Tok(pc + 2), kDOTS)[2]).n,
                      loop_body_start |-> pc + 4,
                      loop_body_end |-> FindClose(pc + 4),
                      inner_pc |-> pc + 4,
                      phase |-> "for"]
            /\ UNCHANGED output
    /\ UNCHANGED <<tokens, code_in, variables, condition_stack, block_executed,
                   suppress_class_messages, calls, output_in>>

\* the `_` arm: any other token, and a keyword whose length guard fails
Skip ==
    /\ Running
    /\ ~(Tok(pc) = kWA /\ pc + 4 < NTok)
    /\ ~(Tok(pc) = kCO /\ pc + 3 < NTok)
    /\ ~(Tok(pc) = kBAU /\ pc + 1 < NTok)
    /\ ~(Tok(pc) = kPONDE /\ pc + 3 < NTok)
    /\ pc' = pc + 1
    /\ UNCHANGED <<tokens, code_in, variables, output, condition_stack, block_executed,
                   suppress_class_messages, status, lp, calls, output_in>>

\* `while pc < tokens.len()` fails: run_interpreter returns
Return ==
    /\ status = "run"
    /\ pc >= NTok
    /\ status' = "done"
    /\ UNCHANGED <<tokens, code_in, pc, variables, output, condition_stack, block_executed,
                   suppress_class_messages, lp, calls, output_in>>

-----------------------------------------------------------------------------
(* run_interpreter: the PONDE loop, `for i in start as i64..(end as i64) + 1`, *)
(* and the arms of the match inside `while inner_pc < loop_body_end`       *)

\* i is within start as i64..(end as i64) + 1
LoopContinuesExclusive(i, end) == i < end
LoopContinues(i, end) == i <= end

\* a `for` that binds the induction variable in its first pass only
ForNextBindsOnce ==
    /\ status = "loop"
    /\ lp.phase = "for"
    /\ IF LoopContinues(lp.i, lp.end)
       THEN /\ variables' = IF Bound(variables, lp.var) THEN variables
                            ELSE Insert(variables, lp.var, VNum(lp.i))
            /\ lp' = [lp EXCEPT !.inner_pc = lp.loop_body_start, !.phase = "body"]
            /\ UNCHANGED <<pc, status>>
       ELSE /\ pc' = lp.loop_body_end + 1
            /\ status' = "run"
            /\ lp' = NoLoop
            /\ UNCHANGED variables
    /\ UNCHANGED <<tokens, code_in, output, condition_stack, block_executed,
                   suppress_class_messages, calls, output_in>>

\* the head of `for`: bind the induction variable and enter the body, or leave
\* the loop with pc = loop_body_end + 1
ForNext ==
    /\ status = "loop"
    /\ lp.phase = "for"
    /\ IF LoopContinues(lp.i, lp.end)
       THEN /\ variables' = Insert(variables, lp.var, VNum(lp.i))
            /\ lp' = [lp EXCEPT !.inner_pc = lp.loop_body_start, !.phase = "body"]
            /\ UNCHANGED <<pc, status>>
       ELSE /\ pc' = lp.loop_body_end + 1
            /\ status' = "run"
            /\ lp' = NoLoop
            /\ UNCHANGED variables
    /\ UNCHANGED <<tokens, code_in, output, condition_stack, block_executed,
                   suppress_class_messages, calls, output_in>>

InBody == status = "loop" /\ lp.phase = "body" /\ lp.inner_pc < lp.loop_body_end

\* a `for` that re-enters the body with the same i
NextPassSameIteration == [lp EXCEPT !.phase = "for"]

\* the end of one pass of `for`: `while` fails, or a `break` left it
NextPass == [lp EXCEPT !.i = lp.i + 1, !.phase = "for"]

\* Some("BAU") if inner_pc + 1 < loop_body_end
LoopBAU ==
    /\ InBody
    /\ Tok(lp.inner_pc) = kBAU
    /\ lp.inner_pc + 1 < lp.loop_body_end
    /\ LET r == PrintText(Tok(lp.inner_pc + 1), variables,
                          <<"[ERROR: VanishValue]: Variable couldn't be found in scope: ">>)
       IN IF r.k = "panic"
          THEN /\ status' = "panic"
               /\ lp' = [lp EXCEPT !.inner_pc = lp.inner_pc + 1]
               /\ UNCHANGED output
          ELSE /\ output' = output \o r.val
               /\ lp' = [lp EXCEPT !.inner_pc = lp.inner_pc + 2]
               /\ UNCHANGED status
    /\ UNCHANGED <<tokens, code_in, pc, variables, condition_stack, block_executed,
                   suppress_class_messages, calls, output_in>>

\* Some("WA") if inner_pc + 4 < loop_body_end
LoopWA ==
    /\ InBody
    /\ Tok(lp.inner_pc) = kWA
    /\ lp.inner_pc + 4 < lp.loop_body_end
    /\ IF Tok(lp.inner_pc + 3) # kEQ
       THEN \* break: the next pass of `for`
            /\ output' = output \o Line(<<"[ERROR: Syntax]: Expected '=' after variable name">>)
            /\ lp' = [NextPass EXCEPT !.inner_pc = lp.inner_pc + 3]
            /\ UNCHANGED <<variables, status>>
       ELSE LET r == LoopWAValue(Tok(lp.inner_pc + 1), Tok(lp.inner_pc + 4), variables, lp.i)
            IN CASE r.k = "ok" ->
                      /\ variables' = Insert(variables, Tok(lp.inner_pc + 2), r.val)
                      /\ lp' = [lp EXCEPT !.inner_pc = lp.inner_pc + 5]
                      /\ UNCHANGED <<output, status>>
                 [] r.k = "err" ->
                      /\ output' = output \o Line(r.err)
                      /\ lp' = [lp EXCEPT !.inner_pc = lp.inner_pc + 4]
                      /\ UNCHANGED <<variables, status>>
                 [] r.k = "panic" ->
                      /\ status' = "panic"
                      /\ lp' = [lp EXCEPT !.inner_pc = lp.inner_pc + 4]
                      /\ UNCHANGED <<variables, output>>
    /\ UNCHANGED <<tokens, code_in, pc, condition_stack, block_executed,
                   suppress_class_messages, calls, output_in>>

\* Some("CO") if inner_pc + 3 < loop_body_end
LoopCO ==
    /\ InBody
    /\ Tok(lp.inner_pc) = kCO
    /\ lp.inner_pc + 3 < lp.loop_body_end
    /\ IF Tok(lp.inner_pc + 2) # kEQ
       THEN \* break: the next pass of `for`
            /\ output' = output \o Line(<<"[ERROR: Syntax]: Expected '=' in a reassignment">>)
            /\ lp' = [NextPass EXCEPT !.inner_pc = lp.inner_pc + 2]
            /\ UNCHANGED <<variables, status>>
       ELSE IF ~Bound(variables, Tok(lp.inner_pc + 1))
       THEN /\ output' = output \o
                 Line(<<"[ERROR: VanishValue]: Variable couldn't be found in scope: ">>
                      \o Tok(lp.inner_pc + 1))
            /\ lp' = [lp EXCEPT !.inner_pc = lp.inner_pc + 3]
            /\ UNCHANGED <<variables, status>>
       ELSE LET r == LoopCOValue(Kind(variables, Tok(lp.inner_pc + 1)),
                                 Tok(lp.inner_pc + 3), variables, lp.i)
            IN CASE r.k = "ok" ->
                      /\ variables' = Insert(variables, Tok(lp.inner_pc + 1), r.val)
                      /\ lp' = [lp EXCEPT !.inner_pc = lp.inner_pc + 4]
                      /\ UNCHANGED <<output, status>>
                 [] r.k = "err" ->
                      /\ output' = output \o Line(r.err)
                      /\ lp' = [lp EXCEPT !.inner_pc = lp.inner_pc + 3]
                      /\ UNCHANGED <<variables, status>>
                 [] r.k = "skip" ->
                      /\ lp' = [lp EXCEPT !.inner_pc = lp.inner_pc + 3]
                      /\ UNCHANGED <<variables, output, status>>
                 [] r.k = "panic" ->
                      /\ status' = "panic"
                      /\ lp' = [lp EXCEPT !.inner_pc = lp.inner_pc + 3]
                      /\ UNCHANGED <<variables, output>>
    /\ UNCHANGED <<tokens, code_in, pc, condition_stack, block_executed,
                   suppress_class_messages, calls, output_in>>

\* the `_` arm of the loop body
LoopSkip ==
    /\ InBody
    /\ ~(Tok(lp.inner_pc) = kBAU /\ lp.inner_pc + 1 < lp.loop_body_end)
    /\ ~(Tok(lp.inner_pc) = kWA /\ lp.inner_pc + 4 < lp.loop_body_end)
    /\ ~(Tok(lp.inner_pc) = kCO /\ lp.inner_pc + 3 < lp.loop_body_end)
    /\ lp' = [lp EXCEPT !.inner_pc = lp.inner_pc + 1]
    /\ UNCHANGED <<tokens, code_in, pc, variables, output, condition_stack, block_executed,
                   suppress_class_messages, status, calls, output_in>>

\* `while inner_pc < loop_body_end` fails: the next pass of `for`
LoopBodyEnd ==
    /\ status = "loop"
    /\ lp.phase = "body"
    /\ lp.inner_pc >= lp.loop_body_end
    /\ lp' = NextPass
    /\ UNCHANGED <<tokens, code_in, pc, variables, output, condition_stack, block_executed,
                   suppress_class_messages, status, calls, output_in>>

-----------------------------------------------------------------------------
(* The caller: source texts handed to run_interpreter.  A statement is a   *)
(* sequence of words; the source text writes them separated by one space.  *)

MaxStmts == 2    \* statements of a straight-line program
MaxRange == 3    \* largest bound of a loop range

wx == <<"x">>
wi == <<"i">>
w3 == <<"3">>
wNeg12 == <<"-", "1", "2">>
sA == <<QUOTE, "a", QUOTE>>
sB == <<QUOTE, "b", QUOTE>>
eCounter1 == <<"<">> \o kCOUNTER \o <<" ", "+", " ", "1", ">">>
wy == <<"y">>
wzz == <<"z", "z">>

NumLits == {w3, wNeg12}
BoolLits == {kFLUFFY, kFUZZY}

Declare(ty, name, init) == <<kWA, ty, name, kEQ, init>>
Reassign(name, v) == <<kCO, name, kEQ, v>>
PrintOf(operand) == <<kBAU, operand>>

SimpleStmts ==
    {Declare(kMOE, wx, k) : k \in NumLits}
    \cup {Declare(kBAULEAN, wx, b) : b \in BoolLits}
    \cup {Declare(kKIRA, wx, sA), Declare(kKIRA, w3, sA)}
    \cup {PrintOf(wx)}
    \cup {Reassign(wx, v) : v \in {w3, sB, kFUZZY}}
    \cup {<<kWA, kMOE, wx, w3>>, <<kCO, wx, w3>>}     \* no '=' after the name
    \cup {Declare(kMOE, wx, sA)}                     \* an initializer of another type
    \cup {<<wzz>>, <<kNOEH>>}                        \* no keyword of run_interpreter

RangeWord(a, b) == FmtNum(a) \o kDOTS \o FmtNum(b)

LoopBodies ==
    {PrintOf(wi), Reassign(wx, sB), Reassign(wx, w3), Declare(kMOE, wx, eCounter1),
     Reassign(wx, eCounter1),
     Declare(kKIRA, wi, sA)}                         \* binds the induction variable

LoopStmt(a, b, body) == <<kPONDE, wi, RangeWord(a, b), kOPEN>> \o body \o <<kCLOSE>>

RECURSIVE Flatten(_)
Flatten(ss) == IF ss = <<>> THEN <<>> ELSE Head(ss) \o Flatten(Tail(ss))

\* straight-line programs, and programs around one loop
StraightPrograms ==
    {Flatten(ss) : ss \in UNION {[1..k -> SimpleStmts] : k \in 0..MaxStmts}}

LoopPrograms ==
    {pre \o LoopStmt(a, b, body) \o post :
        pre \in {<<>>, Declare(kMOE, kCOUNTER, w3)} \cup SimpleStmts,
        a \in (0 - 1)..MaxRange, b \in 0..MaxRange,
        body \in LoopBodies,
        post \in {<<>>, PrintOf(wi)}}

\* a bracketed expression of three parts
Expr(l, op, r) == <<"<">> \o l \o <<" ">> \o op \o <<" ">> \o r \o <<">">>

\* expressions: well-formed ones, a single operand (a literal, a name), a wrong
\* number of parts, an operand that resolves to nothing, an operator that is none
Exprs ==
    {Expr(<<"1">>, <<"+">>, <<"2">>), Expr(wx, <<"*">>, <<"2">>),
     Expr(kFLUFFY, <<"+">>, wx), Expr(<<"7">>, <<"%">>, w3),
     <<"<", "3", ">">>, <<"<", "x", ">">>, <<"<">> \o kFLUFFY \o <<">">>,
     <<"<", "1", " ", "+", ">">>, Expr(<<"1">>, <<"+">>, <<"2", " ", "+", " ", "3">>),
     Expr(<<"q">>, <<"+">>, <<"1">>), Expr(<<"1">>, <<"^">>, <<"2">>),
     eCounter1, Expr(kFLUFFY, <<"*">>, <<"2">>)}

\* a declaration or a reassignment of y from an expression, x being unbound or
\* bound to a number, a boolean or a text, or a number being bound to the name
\* counter or FLUFFY; then a print of y
ExprPrograms ==
    {pre \o st \o PrintOf(wy) :
        pre \in {<<>>, Declare(kMOE, wx, w3), Declare(kBAULEAN, wx, kFLUFFY),
                  Declare(kKIRA, wx, sA), Declare(kMOE, kCOUNTER, w3),
                  Declare(kMOE, kFLUFFY, w3)},
        st \in {Declare(kMOE, wy, e) : e \in Exprs}
               \cup {Declare(kMOE, wy, w3) \o Reassign(wy, e) : e \in Exprs}}

\* a loop whose closing brace is missing
UnclosedLoop(a, b, body) == <<kPONDE, wi, RangeWord(a, b), kOPEN>> \o body

UnclosedPrograms ==
    {UnclosedLoop(a, b, body) : a \in {1}, b \in {0, 2}, body \in LoopBodies}

Programs == StraightPrograms \cup LoopPrograms \cup ExprPrograms \cup UnclosedPrograms

\* what the caller runs on the same environment afterwards
SecondPrograms == SimpleStmts

RECURSIVE Source(_)
Source(words) ==
    IF words = <<>> THEN <<>>
    ELSE IF Len(words) = 1 THEN words[1]
    ELSE words[1] \o <<" ">> \o Source(Tail(words))

\* source texts that are no words joined by one space: a quote or a bracket
\* left open at the end of the text, alone or after some characters; a quoted
\* text holding a separator character; a '=' with no whitespace on one or both
\* sides; a bracketed expression with whitespace at its ends or with a '='
Texts ==
    {Source(p) : p \in
        {PrintOf(<<QUOTE>>), PrintOf(<<QUOTE, "a", "b">>),
         Declare(kKIRA, wx, <<QUOTE>>), Declare(kKIRA, wx, <<QUOTE, "a", "b">>),
         Declare(kKIRA, wx, sA) \o Reassign(wx, <<QUOTE>>),
         Declare(kKIRA, wx, sA) \o Reassign(wx, <<QUOTE, "b">>),
         Declare(kMOE, wx, <<"<", "1", " ", "+", " ", "2">>) ,
         Declare(kMOE, wx, w3) \o Reassign(wx, <<"<", "x", " ", "+", " ", "2">>),
         Declare(kMOE, wx, Expr(<<"1">>, <<"=">>, <<"2">>)),
         Declare(kMOE, wx, <<"<", " ", "1", " ", " ", "+", " ", "2", " ", ">">>)
            \o PrintOf(wx)}}
    \cup {Source(PrintOf(<<QUOTE, "a", c, "b", QUOTE>>)) :
            c \in {" ", "\t", "=", "<", ">", ";"}}
    \cup {Source(<<kWA, ty, wx>>) \o l \o kEQ \o r \o init \o <<" ">> \o Source(PrintOf(wx)) :
            l \in {<<>>, <<" ">>}, r \in {<<>>, <<" ">>},
            ty \in {kMOE, kKIRA}, init \in {w3, sA, Expr(<<"1">>, <<"+">>, <<"2">>)}}

\* the buffers a caller passes to the first call
InitialOutputs == {<<>>, <<"o", "l", "d", NL>>}

-----------------------------------------------------------------------------
(* Specification of run_interpreter and its caller                         *)

\* a call that starts from a fresh environment instead of the caller's
EnterFresh(code) ==
    /\ code_in' = code
    /\ tokens' = Lex(code)
    /\ pc' = StartPc(Lex(code))
    /\ suppress_class_messages' = ~HasFlag(Lex(code))
    /\ condition_stack' = <<>>
    /\ status' = "run"
    /\ lp' = NoLoop
    /\ variables' = EmptyMap

\* run_interpreter(code, variables, output) up to the dispatch loop: the tokens
\* and the locals; the environment is the caller's, by mutable reference
Enter(code) ==
    /\ code_in' = code
    /\ variables' = variables
    /\ tokens' = Lex(code)
    /\ pc' = StartPc(Lex(code))
    /\ suppress_class_messages' = ~HasFlag(Lex(code))
    /\ condition_stack' = <<>>
    /\ status' = "run"
    /\ lp' = NoLoop

Init ==
    \E code \in {Source(p) : p \in Programs} \cup Texts, o \in InitialOutputs :
        /\ code_in = code
        /\ tokens = Lex(code_in)
        /\ pc = StartPc(tokens)
        /\ suppress_class_messages = ~HasFlag(tokens)
        /\ condition_stack = <<>>
        /\ block_executed = FALSE
        /\ status = "run"
        /\ lp = NoLoop
        /\ variables = EmptyMap
        /\ output = o
        /\ output_in = o
        /\ calls = 1

\* the caller clears the buffer and calls run_interpreter again with the same
\* environment
Execute ==
    /\ status = "done"
    /\ calls = 1
    /\ \E p \in SecondPrograms : Enter(Source(p))
    /\ output' = <<>>
    /\ output_in' = <<>>
    /\ calls' = calls + 1
    /\ UNCHANGED block_executed

Next ==
    \/ WA
    \/ CO
    \/ BAU
    \/ PONDE
    \/ Skip
    \/ Return
    \/ ForNext
    \/ LoopBAU
    \/ LoopWA
    \/ LoopCO
    \/ LoopSkip
    \/ LoopBodyEnd
    \/ Execute

Spec == Init /\ [][Next]_vars

-----------------------------------------------------------------------------
(* main (src/src/main.rs): the lexer                                       *)


\* one pass of `for c in code.chars()`; the state has the fields of LexInit, of
\* which main has tokens, in_quote, current_token and skip_line
MainLexStep(st, c) ==
    IF st.skip_line
    THEN (IF c = NL THEN [st EXCEPT !.skip_line = FALSE] ELSE st)
    ELSE IF c = ";" THEN [st EXCEPT !.skip_line = TRUE]
    ELSE IF c = QUOTE
         THEN IF st.in_quote
              THEN [st EXCEPT !.in_quote = FALSE,
                              !.tokens = Append(@, Append(st.current_token, c)),
                              !.current_token = <<>>]
              ELSE [st EXCEPT !.in_quote = TRUE, !.current_token = Append(@, c)]
    ELSE IF IsWhitespace(c) /\ ~st.in_quote THEN Flush(st)
    ELSE [st EXCEPT !.current_token = Append(@, c)]

RECURSIVE MainLexLoop(_, _, _, _)
MainLexLoop(st, code, lo, hi) ==
    IF lo > hi THEN st
    ELSE IF lo = hi THEN MainLexStep(st, code[lo])
    ELSE LET mid == (lo + hi) \div 2
             left == MainLexLoop(st, code, lo, mid)
         IN IF left.skip_line \in BOOLEAN
            THEN MainLexLoop(left, code, mid + 1, hi)
            ELSE left

MainLex(code) == Flush(MainLexLoop(LexInit, code, 1, Len(code))).tokens

-----------------------------------------------------------------------------
(* main: values.  A panic ends the process; nothing reaches stdout.         *)

\* evaluate_variable, and the `$name` lookups written inline
IsRef(token) == StartsWith(token, "$")
RefKind(token, m) == IF IsRef(token) THEN Kind(m, Tail(token)) ELSE "None"

\* WA: `match var_type.as_str()`
MainWAValue(var_type, v) ==
    CASE var_type = kKIRA ->
           IF StartsWith(v, QUOTE) /\ EndsWith(v, QUOTE) /\ InnerOk(v)
           THEN ROk(VStr(Inner(v))) ELSE RPanic
      [] var_type = kBAULEAN ->
           IF v = kFLUFFY THEN ROk(VBool(TRUE))
           ELSE IF v = kFUZZY THEN ROk(VBool(FALSE))
           ELSE RPanic
      [] var_type = kMOE ->
           IF ParseF64(v).ok THEN ROk(VNum(ParseF64(v).n)) ELSE RPanic
      [] OTHER -> RPanic

\* CO: `match existing_var`; an unbound name panics too
MainCOValue(existing, v) ==
    CASE existing = "Str" ->
           IF StartsWith(v, QUOTE) /\ EndsWith(v, QUOTE) /\ InnerOk(v)
           THEN ROk(VStr(Inner(v))) ELSE RPanic
      [] existing = "Bool" ->
           IF v = kFLUFFY THEN ROk(VBool(TRUE))
           ELSE IF v = kFUZZY THEN ROk(VBool(FALSE))
           ELSE RPanic
      [] existing = "Num" ->
           IF ParseF64(v).ok THEN ROk(VNum(ParseF64(v).n)) ELSE RPanic
      [] OTHER -> RPanic

\* BAU: the line printed, or a panic
MainPrintText(token, m) ==
    IF IsRef(token)
    THEN CASE RefKind(token, m) = "Str" -> ROk(Line(m[Tail(token)].s))
           [] RefKind(token, m) = "Bool" -> ROk(Line(FmtBool(m[Tail(token)].b)))
           [] RefKind(token, m) = "Num" -> ROk(Line(FmtVNum(m[Tail(token)])))
           [] OTHER -> RPanic
    ELSE IF StartsWith(token, QUOTE) /\ EndsWith(token, QUOTE) /\ InnerOk(token)
    THEN ROk(Line(Inner(token)))
    ELSE RPanic

\* PE / ROPE: the condition, or a panic (k = "panic")
CondOk(b) == [k |-> "ok", b |-> b]
CondPanic == [k |-> "panic", b |-> FALSE]

PECondition(token, m) ==
    IF IsRef(token)
    THEN (IF RefKind(token, m) = "Bool" THEN CondOk(m[Tail(token)].b) ELSE CondPanic)
    ELSE IF token = kFLUFFY THEN CondOk(TRUE)
    ELSE IF token = kFUZZY THEN CondOk(FALSE)
    ELSE CondPanic

ROPECondition(token, m) ==
    IF token = kFLUFFY THEN CondOk(TRUE)
    ELSE IF token = kFUZZY THEN CondOk(FALSE)
    ELSE IF RefKind(token, m) = "Bool" THEN CondOk(m[Tail(token)].b)
    ELSE CondPanic

\* an else-if that does not look at the chain flag
RopePushedIgnoringFlag(condition, executed) == condition

\* ROPE: `condition && should_run`, with should_run = !block_executed
RopePushed(condition, executed) == condition /\ ~executed

\* an else-if or else that leaves the entry of the previous branch on the stack
PopNothing(stack) == stack

\* condition_stack.pop()
Pop(stack) == IF stack = <<>> THEN stack ELSE SubSeq(stack, 1, Len(stack) - 1)

\* str::parse::<i32>: an optional sign and a non-empty run of digits
ParseI32(t) == ParseF64(t)

\* PONDE: the iteration count (a negative count runs no pass, as 0), -1 for a panic
Iterations(token, m) ==
    IF IsRef(token)
    THEN CASE RefKind(token, m) = "Bool" -> (IF m[Tail(token)].b THEN 1 ELSE 0)
           [] RefKind(token, m) = "Num" -> Max0(m[Tail(token)].n)
           [] OTHER -> 0 - 1
    ELSE IF token = kFLUFFY THEN 1
    ELSE IF token = kFUZZY THEN 0
    ELSE IF ParseI32(token).ok THEN Max0(ParseI32(token).n)
    ELSE 0 - 1

\* PONDE: one pass over the body from inner_pc, to ENDPONDE or the end of the
\* tokens: what it prints, or a panic when the token after a BAU has one character
RECURSIVE BodyPass(_, _)
BodyPass(inner_pc, acc) ==
    IF ~(inner_pc < NTok /\ Tok(inner_pc) # kENDPONDE) THEN ROk(acc)
    ELSE IF Tok(inner_pc) = kBAU /\ inner_pc + 1 < NTok
    THEN IF InnerOk(Tok(inner_pc + 1))
         THEN BodyPass(inner_pc + 2, acc \o Line(Inner(Tok(inner_pc + 1))))
         ELSE RPanic
    ELSE BodyPass(inner_pc + 1, acc)

\* `for _ in 0..iterations`
RECURSIVE Passes(_, _, _)
Passes(n, loop_start, acc) ==
    IF n <= 0 THEN ROk(acc)
    ELSE IF BodyPass(loop_start, <<>>).k = "panic" THEN RPanic
    ELSE Passes(n - 1, loop_start, acc \o BodyPass(loop_start, <<>>).val)

\* the first index >= from holding ENDPONDE, or tokens.len()
RECURSIVE FindEnd(_)
FindEnd(from) ==
    IF from < NTok /\ Tok(from) # kENDPONDE THEN FindEnd(from + 1) ELSE from

-----------------------------------------------------------------------------
(* main: the dispatch loop, one action per arm of the match.  A panic and   *)
(* NOEH end the process.                                                    *)

MainRest == <<tokens, code_in, suppress_class_messages, lp, calls, output_in>>

\* Some("WA") if pc + 3 < tokens.len()
MainWA ==
    /\ Running
    /\ Tok(pc) = kWA
    /\ pc + 3 < NTok
    /\ IF ~should_execute
       THEN /\ pc' = pc + 1
            /\ UNCHANGED <<variables, status>>
       ELSE LET r == MainWAValue(Tok(pc + 1), Tok(pc + 3))
            IN IF r.k = "ok"
               THEN /\ variables' = Insert(variables, Tok(pc + 2), r.val)
                    /\ pc' = pc + 4
                    /\ UNCHANGED status
               ELSE /\ status' = "panic"
                    /\ pc' = pc + 3
                    /\ UNCHANGED variables
    /\ UNCHANGED <<output, condition_stack, block_executed>>
    /\ UNCHANGED MainRest

\* Some("BAU") if pc + 1 < tokens.len()
MainBAU ==
    /\ Running
    /\ Tok(pc) = kBAU
    /\ pc + 1 < NTok
    /\ IF ~should_execute
       THEN /\ pc' = pc + 2
            /\ UNCHANGED <<output, status>>
       ELSE LET r == MainPrintText(Tok(pc + 1), variables)
            IN IF r.k = "ok"
               THEN /\ output' = output \o r.val
                    /\ pc' = pc + 2
                    /\ UNCHANGED status
               ELSE /\ status' = "panic"
                    /\ pc' = pc + 1
                    /\ UNCHANGED output
    /\ UNCHANGED <<variables, condition_stack, block_executed>>
    /\ UNCHANGED MainRest

\* Some("CO") if pc + 2 < tokens.len()
MainCO ==
    /\ Running
    /\ Tok(pc) = kCO
    /\ pc + 2 < NTok
    /\ IF ~should_execute
       THEN /\ pc' = pc + 1
            /\ UNCHANGED <<variables, status>>
       ELSE LET r == MainCOValue(Kind(variables, Tok(pc + 1)), Tok(pc + 2))
            IN IF r.k = "ok"
               THEN /\ variables' = Insert(variables, Tok(pc + 1), r.val)
                    /\ pc' = pc + 3
                    /\ UNCHANGED status
               ELSE /\ status' = "panic"
                    /\ pc' = pc + 2
                    /\ UNCHANGED variables
    /\ UNCHANGED <<output, condition_stack, block_executed>>
    /\ UNCHANGED MainRest

\* Some("PONDE") if pc + 1 < tokens.len(): the passes, then the scan to ENDPONDE
MainPONDE ==
    /\ Running
    /\ Tok(pc) = kPONDE
    /\ pc + 1 < NTok
    /\ IF ~should_execute
       THEN /\ pc' = pc + 2
            /\ UNCHANGED <<output, status>>
       ELSE IF Iterations(Tok(pc + 1), variables) < 0
       THEN /\ status' = "panic"
            /\ pc' = pc + 1
            /\ UNCHANGED output
       ELSE LET r == Passes(Iterations(Tok(pc + 1), variables), pc + 2, <<>>)
            IN IF r.k = "ok"
               THEN /\ output' = output \o r.val
                    /\ pc' = FindEnd(pc + 1) + 1
                    /\ UNCHANGED status
               ELSE /\ status' = "panic"
                    /\ pc' = pc + 1
                    /\ UNCHANGED output
    /\ UNCHANGED <<variables, condition_stack, block_executed>>
    /\ UNCHANGED MainRest

\* a class open that prints its record whether or not the flag was given
MainFUWAAlwaysPrints ==
    /\ Running
    /\ Tok(pc) = kFUWA
    /\ pc + 2 < NTok
    /\ IF Tok(pc + 1) = kGT
       THEN /\ pc' = pc + 3
            /\ output' = output \o Line(<<"Class: ">> \o Tok(pc + 2))
       ELSE /\ pc' = pc + 2
            /\ UNCHANGED output
    /\ UNCHANGED <<variables, condition_stack, block_executed, status>>
    /\ UNCHANGED MainRest

\* Some("FUWA") if pc + 2 < tokens.len()
MainFUWA ==
    /\ Running
    /\ Tok(pc) = kFUWA
    /\ pc + 2 < NTok
    /\ IF Tok(pc + 1) = kGT
       THEN /\ pc' = pc + 3
            /\ output' = IF ~suppress_class_messages
                         THEN output \o Line(<<"Class: ">> \o Tok(pc + 2))
                         ELSE output
       ELSE /\ pc' = pc + 2
            /\ UNCHANGED output
    /\ UNCHANGED <<variables, condition_stack, block_executed, status>>
    /\ UNCHANGED MainRest

\* a class end that closes only the innermost level and keeps the chain flag
MainMOCOPopsOne ==
    /\ Running
    /\ Tok(pc) = kMOCO
    /\ output' = IF ~suppress_class_messages THEN output \o Line(<<"End class">>)
                 ELSE output
    /\ condition_stack' = Pop(condition_stack)
    /\ pc' = pc + 1
    /\ UNCHANGED <<variables, status, block_executed>>
    /\ UNCHANGED MainRest

\* Some("MOCO")
MainMOCO ==
    /\ Running
    /\ Tok(pc) = kMOCO
    /\ output' = IF ~suppress_class_messages THEN output \o Line(<<"End class">>)
                 ELSE output
    /\ condition_stack' = <<>>
    /\ block_executed' = FALSE
    /\ pc' = pc + 1
    /\ UNCHANGED <<variables, status>>
    /\ UNCHANGED MainRest

\* Some("PE") if pc + 1 < tokens.len()
MainPE ==
    /\ Running
    /\ Tok(pc) = kPE
    /\ pc + 1 < NTok
    /\ LET c == PECondition(Tok(pc + 1), variables)
       IN IF c.k = "ok"
          THEN /\ condition_stack' = Append(condition_stack, c.b)
               /\ block_executed' = c.b
               /\ pc' = pc + 2
               /\ UNCHANGED status
          ELSE /\ status' = "panic"
               /\ pc' = pc + 1
               /\ UNCHANGED <<condition_stack, block_executed>>
    /\ UNCHANGED <<variables, output>>
    /\ UNCHANGED MainRest

\* Some("ROPE") if pc + 1 < tokens.len()
MainROPE ==
    /\ Running
    /\ Tok(pc) = kROPE
    /\ pc + 1 < NTok
    /\ LET c == ROPECondition(Tok(pc + 1), variables)
       IN IF c.k = "ok"
          THEN /\ condition_stack' =
                    Append(Pop(condition_stack), RopePushed(c.b, block_executed))
               /\ block_executed' =
                    (block_executed \/ RopePushed(c.b, block_executed))
               /\ pc' = pc + 2
               /\ UNCHANGED status
          ELSE /\ status' = "panic"
               /\ condition_stack' = Pop(condition_stack)
               /\ pc' = pc + 1
               /\ UNCHANGED block_executed
    /\ UNCHANGED <<variables, output>>
    /\ UNCHANGED MainRest

\* Some("RO")
MainRO ==
    /\ Running
    /\ Tok(pc) = kRO
    /\ condition_stack' = Append(Pop(condition_stack), ~block_executed)
    /\ block_executed' = TRUE
    /\ pc' = pc + 1
    /\ UNCHANGED <<variables, output, status>>
    /\ UNCHANGED MainRest

\* a NOEH that is passed over in a branch that does not execute
MainNOEHGated ==
    /\ Running
    /\ Tok(pc) = kNOEH
    /\ IF should_execute
       THEN /\ output' = output \o Line(<<"Ended program with code NOEH">>)
            /\ status' = "done"
            /\ UNCHANGED pc
       ELSE /\ pc' = pc + 1
            /\ UNCHANGED <<output, status>>
    /\ UNCHANGED <<variables, condition_stack, block_executed>>
    /\ UNCHANGED MainRest

\* Some("NOEH"): the termination record, and `return`
MainNOEH ==
    /\ Running
    /\ Tok(pc) = kNOEH
    /\ output' = output \o Line(<<"Ended program with code NOEH">>)
    /\ status' = "done"
    /\ UNCHANGED <<pc, variables, condition_stack, block_executed>>
    /\ UNCHANGED MainRest

\* Some(token): any other token, and a keyword whose length guard fails
MainUnknown ==
    /\ Running
    /\ ~(Tok(pc) = kWA /\ pc + 3 < NTok)
    /\ ~(Tok(pc) = kBAU /\ pc + 1 < NTok)
    /\ ~(Tok(pc) = kCO /\ pc + 2 < NTok)
    /\ ~(Tok(pc) = kPONDE /\ pc + 1 < NTok)
    /\ ~(Tok(pc) = kFUWA /\ pc + 2 < NTok)
    /\ Tok(pc) # kMOCO
    /\ ~(Tok(pc) = kPE /\ pc + 1 < NTok)
    /\ ~(Tok(pc) = kROPE /\ pc + 1 < NTok)
    /\ Tok(pc) # kRO
    /\ Tok(pc) # kNOEH
    /\ output' = IF should_execute
                 THEN output \o Line(<<"[ERROR: Unknown token]: ">> \o Tok(pc))
                 ELSE output
    /\ pc' = pc + 1
    /\ UNCHANGED <<variables, condition_stack, block_executed, status>>
    /\ UNCHANGED MainRest

\* `while pc < tokens.len()` fails: main returns
MainReturn ==
    /\ status = "run"
    /\ pc >= NTok
    /\ status' = "done"
    /\ UNCHANGED <<pc, variables, output, condition_stack, block_executed>>
    /\ UNCHANGED MainRest

-----------------------------------------------------------------------------
(* Specification of main: the source text is the program file compiled in  *)

MaxMainStmts == 3    \* statements of a program of main

rx == <<"$", "x">>
wA == <<"A">>
s1 == <<QUOTE, "1", QUOTE>>
s2 == <<QUOTE, "2", QUOTE>>
s3 == <<QUOTE, "3", QUOTE>>

MainDeclare(ty, name, init) == <<kWA, ty, name, init>>
MainReassign(name, v) == <<kCO, name, v>>

MainStmts ==
    {MainDeclare(kKIRA, wx, sA), MainDeclare(kBAULEAN, wx, kFLUFFY),
     MainDeclare(kMOE, wx, w3)}
    \cup {PrintOf(rx), PrintOf(sA)}
    \cup {MainReassign(wx, w3)}
    \cup {<<kPE, kFLUFFY>>, <<kPE, kFUZZY>>, <<kPE, rx>>}
    \cup {<<kROPE, kFLUFFY>>, <<kRO>>, <<kMOCO>>, <<kNOEH>>}
    \cup {<<kFUWA, kGT, wA>>, <<kCHIHUAHUA>>, <<wzz>>}
    \cup {<<kPONDE, w3>> \o PrintOf(sB) \o <<kENDPONDE>>}
    \cup {<<kPONDE, w3>> \o PrintOf(sB)}               \* no end marker
    \cup {MainDeclare(kMOE, wx, sA)}                    \* an initializer of another type

MainStraightPrograms ==
    {Flatten(ss) : ss \in UNION {[1..k -> MainStmts] : k \in 0..MaxMainStmts}}

\* a chain of three branches; branch k declares y = k and prints k
Branch(n, s) == MainDeclare(kMOE, wy, <<n>>) \o PrintOf(s)

Chain(c1, c2) ==
    <<kPE, c1>> \o Branch("1", s1) \o <<kROPE, c2>> \o Branch("2", s2)
    \o <<kRO>> \o Branch("3", s3)

Conditions == {kFLUFFY, kFUZZY, rx}

ChainPrefixes ==
    {<<>>, <<kPE, kFUZZY>>, <<kPE, kFLUFFY, kRO>>,
     MainDeclare(kBAULEAN, wx, kFLUFFY), MainDeclare(kBAULEAN, wx, kFUZZY)}

ChainPrograms ==
    {pre \o Chain(c1, c2) : pre \in ChainPrefixes, c1 \in Conditions, c2 \in Conditions}

\* up to two conditional statements, a class end, then a print, directly or
\* behind an else-if or an else
MocoPrograms ==
    {c1 \o c2 \o <<kMOCO>> \o t \o PrintOf(sA) :
        c1 \in {<<>>, <<kPE, kFUZZY>>, <<kPE, kFLUFFY>>, <<kRO>>},
        c2 \in {<<>>, <<kPE, kFUZZY>>, <<kPE, kFLUFFY>>, <<kRO>>},
        t \in {<<>>, <<kROPE, kFLUFFY>>, <<kRO>>}}

\* a class around a print: with or without the leading flag, after a declaration
\* or inside a branch, opened with or without the `>` marker
ClassPrograms ==
    {flag \o pre \o open \o PrintOf(sA) \o <<kMOCO>> :
        flag \in {<<>>, <<kCHIHUAHUA>>},
        pre \in {<<>>, MainDeclare(kMOE, wx, w3), <<kPE, kFLUFFY>>, <<kPE, kFUZZY>>},
        open \in {<<kFUWA, kGT, wA>>, <<kFUWA, wA>>, <<kFUWA, wA, kGT>>}}

MainPrograms ==
    MainStraightPrograms \cup ChainPrograms \cup MocoPrograms \cup ClassPrograms

InitMain ==
    \E p \in MainPrograms :
        /\ code_in = Source(p)
        /\ tokens = MainLex(code_in)
        /\ pc = StartPc(tokens)
        /\ suppress_class_messages = ~HasFlag(tokens)
        /\ condition_stack = <<>>
        /\ block_executed = FALSE
        /\ status = "run"
        /\ lp = NoLoop
        /\ variables = EmptyMap
        /\ output = <<>>
        /\ output_in = <<>>
        /\ calls = 1

NextMain ==
    \/ MainWA
    \/ MainBAU
    \/ MainCO
    \/ MainPONDE
    \/ MainFUWA
    \/ MainMOCO
    \/ MainPE
    \/ MainROPE
    \/ MainRO
    \/ MainNOEH
    \/ MainUnknown
    \/ MainReturn

SpecMain == InitMain /\ [][NextMain]_vars

-----------------------------------------------------------------------------
(* Properties of run_interpreter, checked under Spec                       *)

IsPrefix(a, b) == Len(a) <= Len(b) /\ SubSeq(b, 1, Len(a)) = a

\* the first call has returned, and it was given an empty buffer
FirstRunDone == status = "done" /\ calls = 1 /\ output_in = <<>>

\* the dispatcher is about to take the CO arm, at top level or in a loop body
AtCO == Running /\ Tok(pc) = kCO /\ pc + 3 < NTok /\ should_execute
AtLoopCO == InBody /\ Tok(lp.inner_pc) = kCO /\ lp.inner_pc + 3 < lp.loop_body_end

\* C1: a program `WA <type> x = <literal>` `BAU x` run on an empty buffer leaves
\* exactly one line in it: the integer literal itself for MOE, `true` for
\* BAULEAN FLUFFY, `false` for BAULEAN FUZZY.
C1_DeclarePrintRoundTrip ==
    FirstRunDone =>
        /\ \A k \in NumLits :
              tokens = Declare(kMOE, wx, k) \o PrintOf(wx) => output = k \o <<NL>>
        /\ tokens = Declare(kBAULEAN, wx, kFLUFFY) \o PrintOf(wx)
              => output = <<"true", NL>>
        /\ tokens = Declare(kBAULEAN, wx, kFUZZY) \o PrintOf(wx)
              => output = <<"false", NL>>

C1_Witness ==
    /\ FirstRunDone
    /\ tokens = Declare(kBAULEAN, wx, kFUZZY) \o PrintOf(wx)
    /\ variables[wx] = VBool(FALSE)
    /\ output = <<"false", NL>>

\* the lines a, a+1, ..., b
RECURSIVE CountLines(_, _)
CountLines(a, b) ==
    IF a > b THEN <<>> ELSE NatDigits(a) \o <<NL>> \o CountLines(a + 1, b)

NumberOfLines(out) == Cardinality({j \in 1..Len(out) : out[j] = NL})

Max(a, b) == IF a >= b THEN a ELSE b

\* C4: `PONDE i a..b { BAU i }` run on an empty buffer appends exactly
\* max(0, b - a + 1) lines, a, a+1, ..., b in ascending order, none when a > b;
\* the run then goes on: every token is dispatched, and a print of i placed after
\* the loop appends its own line (b, or the unbound-variable line when a > b).
C4_CountedLoopLines ==
    FirstRunDone =>
        \A a \in 0..MaxRange, b \in 0..MaxRange :
            /\ tokens = LoopStmt(a, b, PrintOf(wi))
                  => /\ output = CountLines(a, b)
                     /\ NumberOfLines(output) = Max(0, b - a + 1)
                     /\ pc = NTok
            /\ tokens = LoopStmt(a, b, PrintOf(wi)) \o PrintOf(wi)
                  => /\ output = CountLines(a, b) \o
                          (IF a <= b THEN CountLines(b, b)
                           ELSE <<"[ERROR: VanishValue]: Variable couldn't be found: ",
                                  "i", NL>>)
                     /\ pc = NTok

C4_Witness ==
    /\ FirstRunDone
    /\ tokens = LoopStmt(1, 3, PrintOf(wi))
    /\ output = <<"1", NL, "2", NL, "3", NL>>

C4_WitnessReversed ==
    /\ FirstRunDone
    /\ tokens = LoopStmt(3, 1, PrintOf(wi)) \o PrintOf(wi)
    /\ NumberOfLines(output) = 1

\* C6: no step of the evaluator removes a binding, and the second call starts
\* with the environment the first call left: a variable bound by the first call
\* is printed by the second with its last value, and can be reassigned by it.
C6_BindingsPersist ==
    /\ [][/\ DOMAIN variables \subseteq DOMAIN variables'
          /\ calls' # calls => variables' = variables]_vars
    /\ [](/\ calls = 2
          /\ status = "done"
          /\ Kind(variables, wx) = "Num"
          => /\ tokens = PrintOf(wx) => output = FmtVNum(variables[wx]) \o <<NL>>
             /\ tokens = Reassign(wx, w3) => variables[wx] = VNum(3) /\ output = <<>>)

C6_Witness ==
    /\ calls = 2
    /\ status = "done"
    /\ tokens = PrintOf(wx)
    /\ Bound(variables, wx)
    /\ variables[wx] = VNum(0 - 12)
    /\ output = <<"-", "1", "2", NL>>

\* C7: every step of a call leaves the buffer as it was and appends to it: the
\* content before the step, the caller's included, is a prefix of the content
\* after it, and what a step appends ends with a newline.
C7_AppendOnly ==
    [][calls' = calls =>
          /\ IsPrefix(output, output')
          /\ IsPrefix(output_in, output')
          /\ output' # output => output'[Len(output')] = NL]_vars

C7_Witness ==
    /\ output_in # <<>>
    /\ IsPrefix(output_in, output)
    /\ Len(output) > Len(output_in)
    /\ status = "done"

\* C10: a CO step, at top level or in a loop body, accepted or rejected, leaves
\* every bound name with the variant it had.
C10_ReassignKeepsVariant ==
    [][AtCO \/ AtLoopCO =>
          \A k \in DOMAIN variables : Kind(variables', k) = Kind(variables, k)]_vars

C10_Witness ==
    /\ FirstRunDone
    /\ tokens = Declare(kMOE, wx, wNeg12) \o Reassign(wx, w3)
    /\ variables[wx] = VNum(3)

C10_WitnessRejected ==
    /\ FirstRunDone
    /\ tokens = Declare(kKIRA, wx, sA) \o Reassign(wx, w3)
    /\ variables[wx] = VStr(<<"a">>)
    /\ output # <<>>

\* the dispatcher is about to drop a statement without executing it: a WA, CO,
\* BAU or PONDE too close to the end of the tokens for its length guard, or a
\* loop-body CO of a variable that is not a number
AtTruncated ==
    /\ Running
    /\ \/ Tok(pc) = kWA /\ ~(pc + 4 < NTok)
       \/ Tok(pc) = kCO /\ ~(pc + 3 < NTok)
       \/ Tok(pc) = kBAU /\ ~(pc + 1 < NTok)
       \/ Tok(pc) = kPONDE /\ ~(pc + 3 < NTok)

AtLoopCORejected ==
    /\ AtLoopCO
    /\ Tok(lp.inner_pc + 2) = kEQ
    /\ Kind(variables, Tok(lp.inner_pc + 1)) \in {"Str", "Bool"}

\* C8: a statement's error does not abort the run: the call returns only when
\* every token has been dispatched, so the statements after a failing one are
\* executed.  (The `break` after a missing '=' refutes it.)
C8_NoAbort == status = "done" => pc >= NTok

\* C9: a statement that fails to take effect appends a diagnostic: the step that
\* drops a truncated statement, or rejects a loop-body reassignment, extends the
\* buffer.  (The `_` arms refute it.)
C9_NoSilentDrop ==
    [][AtTruncated \/ AtLoopCORejected => output' # output]_vars

\* the BAU arm is about to print an operand that is neither a quoted string nor
\* a bound name, at top level or in a loop body
Quoted(t) == StartsWith(t, QUOTE) /\ EndsWith(t, QUOTE)

AtPrintUnbound ==
    \/ /\ Running /\ Tok(pc) = kBAU /\ pc + 1 < NTok /\ should_execute
       /\ ~Quoted(Tok(pc + 1)) /\ ~Bound(variables, Tok(pc + 1))
    \/ /\ InBody /\ Tok(lp.inner_pc) = kBAU /\ lp.inner_pc + 1 < lp.loop_body_end
       /\ ~Quoted(Tok(lp.inner_pc + 1)) /\ ~Bound(variables, Tok(lp.inner_pc + 1))

\* C5, in run_interpreter: the print of an unbound name appends one line, the
\* VanishValue diagnostic naming it, changes no binding and leaves the
\* dispatcher running.
C5_PrintUnbound ==
    [][AtPrintUnbound =>
          /\ Len(output') = Len(output) + 3
          /\ IsPrefix(output, output')
          /\ output'[Len(output) + 1] \in
                {"[ERROR: VanishValue]: Variable couldn't be found: ",
                 "[ERROR: VanishValue]: Variable couldn't be found in scope: "}
          /\ output'[Len(output')] = NL
          /\ variables' = variables
          /\ status' = status]_vars

\* a CO whose new value is a literal of another variant than the variable's: a
\* number for a text or boolean variable, a quoted string for a boolean or
\* number variable
AtCOMismatch ==
    /\ AtCO
    /\ Tok(pc + 2) = kEQ
    /\ \/ /\ Kind(variables, Tok(pc + 1)) \in {"Str", "Bool"}
          /\ ParseF64(Tok(pc + 3)).ok
       \/ /\ Kind(variables, Tok(pc + 1)) \in {"Bool", "Num"}
          /\ Quoted(Tok(pc + 3))

\* C2, in run_interpreter: a CO of a literal of another variant appends exactly
\* one IncompatibleType line and changes no binding.
C2_RejectMismatch ==
    [][AtCOMismatch =>
          /\ \E ty \in {"(KIRA)", "(BAULEAN)", "(MOE)"} :
                output' = output \o
                    <<"[ERROR: IncompatibleType]: CO requires matching type " \o ty, NL>>
          /\ variables' = variables]_vars

-----------------------------------------------------------------------------
(* Properties of main, checked under SpecMain                              *)

AtMainCO == Running /\ Tok(pc) = kCO /\ pc + 2 < NTok /\ should_execute

AtMainCOMismatch ==
    /\ AtMainCO
    /\ \/ /\ Kind(variables, Tok(pc + 1)) \in {"Str", "Bool"}
          /\ ParseF64(Tok(pc + 2)).ok
       \/ /\ Kind(variables, Tok(pc + 1)) \in {"Bool", "Num"}
          /\ Quoted(Tok(pc + 2))

\* C2, in main: a CO of a literal of another variant prints exactly one
\* IncompatibleType line, changes no binding, and the dispatcher goes on.
\* (The panic refutes it.)
C2_MainRejectMismatch ==
    [][AtMainCOMismatch =>
          /\ Len(output') > Len(output)
          /\ IsPrefix(output, output')
          /\ output'[Len(output')] = NL
          /\ variables' = variables
          /\ status' = "run"]_vars

AtMainPrintUnbound ==
    /\ Running /\ Tok(pc) = kBAU /\ pc + 1 < NTok /\ should_execute
    /\ ~Quoted(Tok(pc + 1))
    /\ RefKind(Tok(pc + 1), variables) = "None"

\* C5, in main: the print of an unbound name prints one VanishValue line,
\* changes no binding and does not end the run.  (The panic refutes it.)
C5_MainPrintUnbound ==
    [][AtMainPrintUnbound =>
          /\ Len(output') > Len(output)
          /\ IsPrefix(output, output')
          /\ output'[Len(output')] = NL
          /\ variables' = variables
          /\ status' = "run"]_vars

\* the truth value of a chain condition: a literal, or `$x` bound to a boolean
CondVal(c) ==
    IF c = kFLUFFY THEN TRUE
    ELSE IF c = kFUZZY THEN FALSE
    ELSE variables[wx].b

\* C3: for every chain PE c1 .. ROPE c2 .. RO .. and every truth value of c1 and
\* c2, exactly one branch has executed when main returns: the first if c1, else
\* the second if c2, else the third; the executed branch's declaration and print
\* took effect and no other branch's did.
C3_ExactlyOneBranch ==
    status = "done" =>
        \A pre \in ChainPrefixes, c1 \in Conditions, c2 \in Conditions :
            tokens = pre \o Chain(c1, c2) =>
                LET n == IF CondVal(c1) THEN 1 ELSE IF CondVal(c2) THEN 2 ELSE 3
                IN /\ output = NatDigits(n) \o <<NL>>
                   /\ Bound(variables, wy)
                   /\ variables[wy] = VNum(n)

C3_Witness ==
    /\ status = "done"
    /\ tokens = <<kPE, kFUZZY>> \o Chain(kFLUFFY, kFLUFFY)
    /\ output = <<"1", NL>>

C3_WitnessElse ==
    /\ status = "done"
    /\ tokens = MainDeclare(kBAULEAN, wx, kFUZZY) \o Chain(rx, rx)
    /\ output = <<"3", NL>>

-----------------------------------------------------------------------------
(* Declarations and reassignments: types and unbound names                 *)

\* C11: once a name is bound to a variant, no step binds it to another variant.
\* (A second WA of the name with another type keyword, and a PONDE whose
\* induction variable is a bound text or boolean, refute it.)
C11_TypeFixedAtDeclaration ==
    [][\A k \in DOMAIN variables : Kind(variables', k) = Kind(variables, k)]_vars

\* the CO arm is about to reassign a name that is not bound, at top level or in
\* a loop body
AtCOUnbound ==
    \/ AtCO /\ Tok(pc + 2) = kEQ /\ ~Bound(variables, Tok(pc + 1))
    \/ AtLoopCO /\ Tok(lp.inner_pc + 2) = kEQ /\ ~Bound(variables, Tok(lp.inner_pc + 1))

\* C12, in run_interpreter: a CO of an unbound name appends one VanishValue line
\* naming it, binds nothing, and leaves the dispatcher running.
C12_ReassignUnbound ==
    [][AtCOUnbound =>
          /\ Len(output') > Len(output) + 2
          /\ IsPrefix(output, output')
          /\ output'[Len(output) + 1] \in
                {"[ERROR: VanishValue]: Variable could not be found in scope: ",
                 "[ERROR: VanishValue]: Variable couldn't be found in scope: "}
          /\ NumberOfLines(output') = NumberOfLines(output) + 1
          /\ variables' = variables
          /\ status' = status]_vars

AtMainCOUnbound == AtMainCO /\ ~Bound(variables, Tok(pc + 1))

\* C12, in main: a CO of an unbound name prints one line, binds nothing, and
\* the dispatcher goes on.  (The panic refutes it.)
C12_MainReassignUnbound ==
    [][AtMainCOUnbound =>
          /\ Len(output') > Len(output)
          /\ IsPrefix(output, output')
          /\ output'[Len(output')] = NL
          /\ variables' = variables
          /\ status' = "run"]_vars

\* an initializer that does not fit the type keyword; in run_interpreter a name
\* bound to the right variant fits too (byName)
Misfit(var_type, v, m, byName) ==
    CASE var_type = kKIRA -> ~Quoted(v) /\ ~(byName /\ Kind(m, v) = "Str")
      [] var_type = kBAULEAN ->
           v \notin {kFLUFFY, kFUZZY} /\ ~(byName /\ Kind(m, v) = "Bool")
      [] var_type = kMOE ->
           /\ ~ParseF64(v).ok
           /\ ~(byName /\ Kind(m, v) = "Num")
           /\ ~(byName /\ StartsWith(v, "<") /\ EndsWith(v, ">"))
      [] OTHER -> TRUE

AtWAMisfit ==
    /\ Running /\ Tok(pc) = kWA /\ pc + 4 < NTok /\ should_execute
    /\ Tok(pc + 3) = kEQ
    /\ Misfit(Tok(pc + 1), Tok(pc + 4), variables, TRUE)

\* C13, in run_interpreter: a WA whose initializer does not fit appends one
\* diagnostic line, binds nothing, and leaves the dispatcher running.
C13_DeclareMisfit ==
    [][AtWAMisfit =>
          /\ IsPrefix(output, output')
          /\ NumberOfLines(output') = NumberOfLines(output) + 1
          /\ output'[Len(output')] = NL
          /\ variables' = variables
          /\ status' = "run"]_vars

AtMainWAMisfit ==
    /\ Running /\ Tok(pc) = kWA /\ pc + 3 < NTok /\ should_execute
    /\ Misfit(Tok(pc + 1), Tok(pc + 3), variables, FALSE)

\* C13, in main: a WA whose initializer does not fit prints one diagnostic line,
\* binds nothing, and the dispatcher goes on.  (The panic refutes it.)
C13_MainDeclareMisfit ==
    [][AtMainWAMisfit =>
          /\ Len(output') > Len(output)
          /\ IsPrefix(output, output')
          /\ output'[Len(output')] = NL
          /\ variables' = variables
          /\ status' = "run"]_vars

-----------------------------------------------------------------------------
(* Termination and unknown tokens, in either evaluator                     *)

\* C14: the step that dispatches NOEH appends one termination record, changes
\* no binding and ends the run there: no later token is dispatched.  It holds
\* of main; run_interpreter has no NOEH arm and refutes it.
C14_TerminateStops ==
    [][Running /\ Tok(pc) = kNOEH =>
          /\ status' = "done"
          /\ pc' = pc
          /\ IsPrefix(output, output')
          /\ NumberOfLines(output') = NumberOfLines(output) + 1
          /\ output'[Len(output')] = NL
          /\ variables' = variables]_vars

\* the statement keywords and markers of the language
StatementKeywords ==
    {kWA, kCO, kBAU, kPONDE, kFUWA, kMOCO, kPE, kROPE, kRO, kNOEH, kENDPONDE}

\* the dispatcher is at a token that is no keyword, and a statement would execute
AtUnknownToken == Running /\ should_execute /\ Tok(pc) \notin StatementKeywords

\* C15: at a token that is no statement keyword, while a statement would
\* execute, the step appends one unknown-token line naming the token, advances
\* pc by one and changes no binding.  It holds of main; the `_` arm of
\* run_interpreter appends nothing and refutes it.
C15_UnknownTokenReported ==
    [][AtUnknownToken =>
          /\ output' = output \o <<"[ERROR: Unknown token]: ">> \o Tok(pc) \o <<NL>>
          /\ pc' = pc + 1
          /\ variables' = variables
          /\ status' = status]_vars

-----------------------------------------------------------------------------
(* A counted loop whose end cannot be found                                *)

NoClosingBrace == "[ERROR: Syntax]: Could not find closing '}' for loop"

\* the PONDE arm of run_interpreter is at a well-formed header whose body has no
\* closing brace
AtUnclosedLoop ==
    /\ Running /\ Tok(pc) = kPONDE /\ pc + 3 < NTok /\ should_execute
    /\ PondeHeader.err = <<NoClosingBrace>>

\* C16, in run_interpreter, the loop statement itself: it appends the Syntax
\* line, starts no pass and binds nothing.
C16_UnclosedLoop ==
    [][AtUnclosedLoop =>
          /\ output' = output \o <<NoClosingBrace, NL>>
          /\ variables' = variables
          /\ status' = "run"
          /\ lp' = NoLoop]_vars

\* C16, in run_interpreter, the body: when the call returns, a program that is
\* one loop without its closing brace has appended the Syntax line and nothing
\* else, and has bound nothing.  (The dispatcher resumes at the first token of
\* the body and executes its statements at top level, which refutes it.)
C16_UnclosedBodyInert ==
    FirstRunDone /\ tokens \in UnclosedPrograms =>
        /\ output = <<NoClosingBrace, NL>>
        /\ variables = EmptyMap

\* the PONDE arm of main is about to run a loop that has no ENDPONDE
AtMainUnclosedLoop ==
    /\ Running /\ Tok(pc) = kPONDE /\ pc + 1 < NTok /\ should_execute
    /\ Iterations(Tok(pc + 1), variables) > 0
    /\ FindEnd(pc + 1) = NTok

\* C16, in main: a loop without its end marker prints one Syntax line and runs
\* no pass of the body.  (main prints no diagnostic and runs every pass, the
\* body reaching to the end of the tokens, which refutes it.)
C16_MainUnclosedLoop ==
    [][AtMainUnclosedLoop =>
          /\ output' = output \o <<NoClosingBrace, NL>>
          /\ variables' = variables]_vars

-----------------------------------------------------------------------------
(* main: what gates a statement, and what MOCO resets                      *)

\* the condition stack is empty or its top entry is true
TopOpen == condition_stack = <<>> \/ condition_stack[Len(condition_stack)]

AtMainWA == Running /\ Tok(pc) = kWA /\ pc + 3 < NTok
AtMainBAU == Running /\ Tok(pc) = kBAU /\ pc + 1 < NTok
AtMainPONDE == Running /\ Tok(pc) = kPONDE /\ pc + 1 < NTok

\* C17: a WA, BAU, CO or PONDE step takes effect exactly when the stack is empty
\* or its top is true, whatever the entries below the top are.  Taking effect:
\* the statement is consumed whole, a WA binds its name, a BAU appends a line,
\* a CO keeps its name bound, a PONDE appends its passes (or the statement ends
\* the process).  Not taking effect: no binding and no output changes, and the
\* dispatcher goes on.
C17_TopGates ==
    [][/\ AtMainWA =>
            IF TopOpen
            THEN \/ status' = "panic"
                 \/ pc' = pc + 4 /\ Bound(variables', Tok(pc + 2)) /\ output' = output
            ELSE variables' = variables /\ output' = output /\ status' = "run"
       /\ AtMainBAU =>
            IF TopOpen
            THEN \/ status' = "panic"
                 \/ /\ pc' = pc + 2
                    /\ NumberOfLines(output') = NumberOfLines(output) + 1
                    /\ variables' = variables
            ELSE variables' = variables /\ output' = output /\ status' = "run"
       /\ (Running /\ Tok(pc) = kCO /\ pc + 2 < NTok) =>
            IF TopOpen
            THEN \/ status' = "panic"
                 \/ /\ pc' = pc + 3
                    /\ Bound(variables, Tok(pc + 1))
                    /\ Kind(variables', Tok(pc + 1)) = Kind(variables, Tok(pc + 1))
            ELSE variables' = variables /\ output' = output /\ status' = "run"
       /\ AtMainPONDE =>
            IF TopOpen
            THEN \/ status' = "panic"
                 \/ /\ pc' = FindEnd(pc + 1) + 1
                    /\ IsPrefix(output, output')
                    /\ (Iterations(Tok(pc + 1), variables) > 0 /\ Tok(pc + 2) = kBAU
                           => output' # output)
            ELSE variables' = variables /\ output' = output /\ status' = "run"]_vars

\* an inner true branch under an outer false one has printed
C17_Witness ==
    /\ status = "done"
    /\ tokens = <<kPE, kFUZZY, kPE, kFLUFFY>> \o PrintOf(sA)
    /\ condition_stack = <<FALSE, TRUE>>
    /\ output = <<"a", NL>>

\* a declaration under a false top has bound nothing
C17_WitnessSkipped ==
    /\ status = "done"
    /\ tokens = <<kPE, kFLUFFY, kPE, kFUZZY>> \o MainDeclare(kMOE, wx, w3)
    /\ condition_stack = <<TRUE, FALSE>>
    /\ variables = EmptyMap
    /\ output = <<>>

\* C18: a MOCO step empties the condition stack and clears the chain flag,
\* whatever they held; the print that follows it, directly or behind an else-if
\* or an else, then executes.
C18_ClassEndResets ==
    /\ [][Running /\ Tok(pc) = kMOCO =>
             /\ condition_stack' = <<>>
             /\ block_executed' = FALSE
             /\ variables' = variables
             /\ pc' = pc + 1]_vars
    /\ [](status = "done" /\ tokens \in MocoPrograms => output = <<"a", NL>>)

\* a chain had taken its else branch, so the flag was set, before the class end
C18_Witness ==
    /\ status = "done"
    /\ tokens = <<kPE, kFUZZY, kRO, kMOCO, kROPE, kFLUFFY>> \o PrintOf(sA)
    /\ output = <<"a", NL>>
    /\ condition_stack = <<TRUE>>

-----------------------------------------------------------------------------
(* run_interpreter: bracketed expressions in WA MOE and CO                 *)

Bracketed(v) == StartsWith(v, "<") /\ EndsWith(v, ">") /\ InnerOk(v)

\* the dispatcher is about to evaluate a bracketed expression: the initializer
\* of a WA MOE, or the new value of a CO of a number variable
AtWAExpr ==
    /\ Running /\ Tok(pc) = kWA /\ pc + 4 < NTok /\ should_execute
    /\ Tok(pc + 1) = kMOE /\ Tok(pc + 3) = kEQ /\ Bracketed(Tok(pc + 4))

AtCOExpr ==
    /\ AtCO /\ Tok(pc + 2) = kEQ /\ Kind(variables, Tok(pc + 1)) = "Num"
    /\ Bracketed(Tok(pc + 3))

\* the expression, the name it is for, and its whitespace-separated parts
ExprToken == IF Tok(pc) = kWA THEN Tok(pc + 4) ELSE Tok(pc + 3)
ExprTarget == IF Tok(pc) = kWA THEN Tok(pc + 2) ELSE Tok(pc + 1)
ExprParts == SplitWhitespace(Trim(Inner(ExprToken)))

\* an operand that is no number or boolean variable, no boolean literal and no
\* number
Unresolvable(operand) ==
    /\ Kind(variables, operand) \notin {"Num", "Bool"}
    /\ operand \notin {kFLUFFY, kFUZZY}
    /\ ~ParseF64(operand).ok

\* the step appends exactly one line, which starts with one of the texts, and
\* binds nothing
FailsWith(texts) ==
    /\ IsPrefix(output, output')
    /\ Len(output') > Len(output)
    /\ output'[Len(output) + 1] \in texts
    /\ NumberOfLines(output') = NumberOfLines(output) + 1
    /\ output'[Len(output')] = NL
    /\ variables' = variables
    /\ status' = status

\* C19: an expression of neither one nor three parts fails with
\* InvalidExpression; one with an operand that cannot be resolved fails with
\* InvalidValue; one of three parts with resolved operands and an operator
\* other than + - * / % fails with InvalidOperator.  Each time the failure text
\* is appended as one line and the statement binds nothing.
C19_ExpressionFailures ==
    [][AtWAExpr \/ AtCOExpr =>
          /\ Len(ExprParts) \notin {1, 3} =>
                FailsWith({"[ERROR: InvalidExpression]: Expecting 'value operator value'"})
          /\ Len(ExprParts) = 1 /\ Unresolvable(ExprParts[1]) =>
                FailsWith({"[ERROR: InvalidValue]: Invalid number/expression"})
          /\ Len(ExprParts) = 3
                /\ (Unresolvable(ExprParts[1]) \/ Unresolvable(ExprParts[3])) =>
                FailsWith({"[ERROR: InvalidValue]: Variable not found or invalid type",
                           "[ERROR: InvalidValue]: '"})
          /\ Len(ExprParts) = 3
                /\ ~Unresolvable(ExprParts[1]) /\ ~Unresolvable(ExprParts[3])
                /\ ExprParts[2] \notin {<<"+">>, <<"-">>, <<"*">>, <<"/">>, <<"%">>} =>
                FailsWith({"[ERROR: InvalidOperator]: Operator is not supported"})]_vars

\* `WA MOE y = <1 ^ 2>` then `BAU y`: the operator is reported and y is unbound
C19_Witness ==
    /\ FirstRunDone
    /\ tokens = Declare(kMOE, wy, Expr(<<"1">>, <<"^">>, <<"2">>)) \o PrintOf(wy)
    /\ variables = EmptyMap
    /\ output = <<"[ERROR: InvalidOperator]: Operator is not supported", NL,
                  "[ERROR: VanishValue]: Variable couldn't be found: ", "y", NL>>

\* five parts, in a reassignment: y keeps its value
C19_WitnessParts ==
    /\ FirstRunDone
    /\ tokens = Declare(kMOE, wy, w3)
                \o Reassign(wy, Expr(<<"1">>, <<"+">>, <<"2", " ", "+", " ", "3">>))
                \o PrintOf(wy)
    /\ output = <<"[ERROR: InvalidExpression]: Expecting 'value operator value'", NL,
                  "3", NL>>

\* C20: an expression that is a single operand binds the value the operand
\* resolves to as an operand of a three-part expression: the number, the value
\* of the number variable, 1 or 0 for a boolean.  (A name, or FLUFFY, alone in
\* the brackets is rejected as an invalid number, which refutes it.)
C20_SingleOperandPassthrough ==
    [][(AtWAExpr \/ AtCOExpr)
          /\ Len(ExprParts) = 1
          /\ evaluate_operand(ExprParts[1], variables).ok =>
             /\ Bound(variables', ExprTarget)
             /\ variables'[ExprTarget] = VOf(evaluate_operand(ExprParts[1], variables))
             /\ output' = output]_vars

-----------------------------------------------------------------------------
(* Termination of run_interpreter *)

Ended == status \in {"done", "panic"}

\* calls the caller has yet to make, whether the call is running, tokens the
\* dispatch loop has yet to pass, passes of `for` yet to make (twice, plus one
\* before the induction variable is bound), tokens of the body yet to pass
Rank ==
    <<2 - calls,
      IF Ended THEN 0 ELSE 1,
      Max0(NTok - pc),
      IF status = "loop"
      THEN 2 * Max0(lp.end - lp.i + 1) + (IF lp.phase = "for" THEN 1 ELSE 0)
      ELSE 0,
      IF status = "loop" /\ lp.phase = "body"
      THEN Max0(lp.loop_body_end - lp.inner_pc)
      ELSE 0>>

\* the lexicographic order on tuples of one length
LexLess(a, b) ==
    \E j \in 1..Len(a) :
        /\ a[j] < b[j]
        /\ \A h \in 1..(j - 1) : a[h] = b[h]

\* a pass of one of the loops can be made.  The guards of the arms that evaluate
\* an initializer are written out: past its guard every branch of such an arm
\* defines the next state.
CanStep ==
    \/ ENABLED (BAU \/ PONDE \/ Skip \/ Return)
    \/ ENABLED (ForNext \/ LoopBAU \/ LoopSkip \/ LoopBodyEnd)
    \/ (Running /\ Tok(pc) = kWA /\ pc + 4 < NTok)
    \/ (Running /\ Tok(pc) = kCO /\ pc + 3 < NTok)
    \/ (InBody /\ Tok(lp.inner_pc) = kWA /\ lp.inner_pc + 4 < lp.loop_body_end)
    \/ (InBody /\ Tok(lp.inner_pc) = kCO /\ lp.inner_pc + 3 < lp.loop_body_end)

\* C21: every call of run_interpreter ends. Within a call pc never decreases;
\* every pass of the dispatch loop moves pc forward; every pass of the `while`
\* over a loop body moves inner_pc forward, the passes that end in `continue`
\* or `break` after a diagnostic included. Termination is stated with a rank: a
\* tuple of naturals that every step lowers in the lexicographic order, and a
\* step is possible until the call has ended.
C21_Terminates ==
    /\ [][/\ LexLess(Rank', Rank)
          /\ calls' = calls =>
                /\ pc' >= pc
                /\ (Running => pc' > pc)
                /\ (InBody => lp'.inner_pc > lp.inner_pc)]_vars
    /\ [](\A j \in 1..Len(Rank) : Rank[j] >= 0)
    /\ [](Ended \/ CanStep)

\* a loop of several passes whose body reported a diagnostic has returned
C21_Witness ==
    /\ status = "done"
    /\ pc = NTok
    /\ \E a \in 0..1, pre \in SimpleStmts :
          tokens = pre \o LoopStmt(a, 3, Reassign(wx, sB))
    /\ Len(output) > Len(output_in) + 3

-----------------------------------------------------------------------------
(* main: the class markers *)

AtMainFUWA == Running /\ Tok(pc) = kFUWA /\ pc + 2 < NTok
AtMainMOCO == Running /\ Tok(pc) = kMOCO

\* C22 (main): the class markers are diagnostic only. The FUWA arm leaves the
\* environment and the condition stack as they are, the MOCO arm leaves the
\* environment as it is, and neither appends anything unless the first token of
\* the program is CHIHUAHUA; with it, what they append is their own record.
C22_ClassMarkersDiagnostic ==
    [][/\ AtMainFUWA =>
            /\ variables' = variables
            /\ condition_stack' = condition_stack
            /\ output' \in {output, output \o Line(<<"Class: ">> \o Tok(pc + 2))}
       /\ AtMainMOCO =>
            /\ variables' = variables
            /\ output' \in {output, output \o Line(<<"End class">>)}
       /\ (AtMainFUWA \/ AtMainMOCO) /\ output' # output => tokens[1] = kCHIHUAHUA
      ]_vars

\* a flagged program has printed both records, a binding and a condition being
\* in place
C22_Witness ==
    /\ status = "done"
    /\ HasFlag(tokens)
    /\ tokens \in ClassPrograms
    /\ output = Line(<<"Class: ">> \o wA) \o Line(<<"a">>) \o Line(<<"End class">>)
    /\ \/ Bound(variables, wx)
       \/ \E j \in 1..NTok : tokens[j] = kPE

\* the same program without the flag has printed the line of its print only
C22_WitnessNoFlag ==
    /\ status = "done"
    /\ tokens \in ClassPrograms
    /\ ~HasFlag(tokens)
    /\ \E j \in 1..NTok : tokens[j] = kGT
    /\ output = Line(<<"a">>)

-----------------------------------------------------------------------------
(* main: the conditional chain *)

AtMainPE == Running /\ Tok(pc) = kPE /\ pc + 1 < NTok
AtMainROPE == Running /\ Tok(pc) = kROPE /\ pc + 1 < NTok
AtMainRO == Running /\ Tok(pc) = kRO

\* the stack with its last entry replaced by b; b pushed when there is none
Replaced(stack, b) ==
    IF stack = <<>> THEN <<b>> ELSE [stack EXCEPT ![Len(stack)] = b]

\* C23 (main): the bookkeeping of a conditional chain. PE pushes its condition
\* and sets block_executed to it. ROPE replaces the top by (condition and not
\* block_executed) and sets block_executed when that is true. RO replaces the
\* top by (not block_executed) and sets block_executed. On a non-empty stack
\* ROPE and RO keep the depth. In a chain PE c1 .. ROPE c2 .. RO .. the entry
\* on top while a branch is being dispatched is true in the first branch iff
\* c1, in the second iff c2 and not c1, in the third iff neither: in at most
\* one of them.
C23_ChainBookkeeping ==
    /\ [][/\ AtMainPE /\ status' = "run" =>
               /\ condition_stack' = condition_stack \o <<CondVal(Tok(pc + 1))>>
               /\ block_executed' = CondVal(Tok(pc + 1))
          /\ AtMainROPE /\ status' = "run" =>
               /\ condition_stack' =
                    Replaced(condition_stack, CondVal(Tok(pc + 1)) /\ ~block_executed)
               /\ block_executed' = (block_executed \/ CondVal(Tok(pc + 1)))
          /\ AtMainRO =>
               /\ condition_stack' = Replaced(condition_stack, ~block_executed)
               /\ block_executed'
          /\ (AtMainROPE \/ AtMainRO) /\ status' = "run" /\ condition_stack # <<>> =>
               Len(condition_stack') = Len(condition_stack)
          ]_vars
    /\ [](\A pre \in ChainPrefixes, c1 \in Conditions, c2 \in Conditions :
            tokens = pre \o Chain(c1, c2) /\ status = "run" =>
                LET at == pc - Len(pre)
                    top == condition_stack[Len(condition_stack)]
                IN /\ (at \in 2..7 => top = CondVal(c1))
                   /\ (at \in 10..15 => top = (~CondVal(c1) /\ CondVal(c2)))
                   /\ (at \in 17..22 => top = (~CondVal(c1) /\ ~CondVal(c2))))

\* the else of a chain whose else-if was taken is being dispatched on a stack
\* that held an entry before the chain: its entry is false, the depth is two
C23_Witness ==
    /\ status = "run"
    /\ tokens = <<kPE, kFUZZY>> \o Chain(kFUZZY, kFLUFFY)
    /\ pc = 2 + 17
    /\ condition_stack = <<FALSE, FALSE>>
    /\ block_executed

-----------------------------------------------------------------------------
(* run_interpreter: a PONDE loop and its body work on the caller's           *)
(* environment                                                              *)

\* the first bound of the range of the loop in progress
LoopStart == ParseF64(Split(Tok(lp.loop_body_start - 2), kDOTS)[1]).n

\* the head of `for` is about to start a pass / to leave the loop
AtPassStart == status = "loop" /\ lp.phase = "for" /\ lp.i <= lp.end
AtLoopExit == status = "loop" /\ lp.phase = "for" /\ lp.i > lp.end

\* a WA or CO of the body names the induction variable as its target
BodyBindsInductionVariable ==
    \E j \in lp.loop_body_start..(lp.loop_body_end - 1) :
        \/ Tok(j) = kWA /\ j + 2 < lp.loop_body_end /\ Tok(j + 2) = lp.var
        \/ Tok(j) = kCO /\ j + 1 < lp.loop_body_end /\ Tok(j + 1) = lp.var

\* what C24 says of every loop but of its end: each pass starts by binding the
\* induction variable to the current integer and changes nothing else; no step
\* of a call removes a binding; a loop over a..b with a > b changes no binding
LoopSharesEnvironment ==
    /\ AtPassStart => variables' = Insert(variables, lp.var, VNum(lp.i))
    /\ calls' = calls => \A k \in DOMAIN variables : Bound(variables', k)
    /\ (Running /\ Tok(pc) = kPONDE) \/ (status = "loop" /\ LoopStart > lp.end)
          => variables' = variables

\* C24: each pass of a loop over a..b starts by binding the induction variable
\* to the current integer; no step removes a binding, so what the body bound is
\* still bound after the loop; a loop with a > b changes no binding; and when a
\* loop with a <= b is left the induction variable is bound to the number b.
\* (A body that binds the induction variable refutes the last part.)
C24_LoopEnvironment ==
    [][/\ LoopSharesEnvironment
       /\ AtLoopExit /\ LoopStart <= lp.end =>
            /\ Bound(variables', lp.var)
            /\ variables'[lp.var] = VNum(lp.end)
      ]_vars

\* C24, amended: as above, but when a loop with a <= b is left the induction
\* variable is bound, and it is bound to the number b when no statement of the
\* body has that name as its target.
C24_LoopEnvironmentAmended ==
    [][/\ LoopSharesEnvironment
       /\ AtLoopExit /\ LoopStart <= lp.end =>
            /\ Bound(variables', lp.var)
            /\ ~BodyBindsInductionVariable => variables'[lp.var] = VNum(lp.end)
      ]_vars

\* a loop of three passes whose body declared x from the counter has returned:
\* i is 3, x is 4, and the binding made before the loop is x's no more
C24_Witness ==
    /\ status = "done"
    /\ calls = 1
    /\ tokens = Declare(kKIRA, wx, sA) \o LoopStmt(1, 3, Declare(kMOE, wx, eCounter1))
    /\ variables = Insert(Insert(EmptyMap, wx, VNum(4)), wi, VNum(3))

\* a loop whose body declares the induction variable as a text has returned
C24_WitnessRebound ==
    /\ status = "done"
    /\ calls = 1
    /\ tokens = LoopStmt(1, 3, Declare(kKIRA, wi, sA))
    /\ variables = Insert(EmptyMap, wi, VStr(<<"a">>))

-----------------------------------------------------------------------------
(* run_interpreter: loop-body statements against top-level statements *)

MentionsCounter(v) == \E j \in 1..Len(v) : IsPrefixAt(v, kCOUNTER, j)

\* a step that makes the binding of r or, r being a rejection, appends to the
\* buffer and binds nothing
TakesEffectOf(r, name) ==
    CASE r.k = "ok" -> variables' = Insert(variables, name, r.val) /\ output' = output
      [] r.k = "err" -> variables' = variables /\ output' # output
      [] OTHER -> status' = "panic"

AtBodyWA ==
    /\ InBody /\ Tok(lp.inner_pc) = kWA /\ lp.inner_pc + 4 < lp.loop_body_end
    /\ Tok(lp.inner_pc + 3) = kEQ
    /\ ~MentionsCounter(Tok(lp.inner_pc + 4))

AtBodyCO ==
    /\ AtLoopCO
    /\ Tok(lp.inner_pc + 2) = kEQ
    /\ ~MentionsCounter(Tok(lp.inner_pc + 3))

AtBodyBAU == InBody /\ Tok(lp.inner_pc) = kBAU /\ lp.inner_pc + 1 < lp.loop_body_end

BodyAsTopLevel ==
    /\ AtBodyWA =>
         TakesEffectOf(WAValue(Tok(lp.inner_pc + 1), Tok(lp.inner_pc + 4), variables),
                       Tok(lp.inner_pc + 2))
    /\ AtBodyCO =>
         IF Bound(variables, Tok(lp.inner_pc + 1))
         THEN TakesEffectOf(COValue(Kind(variables, Tok(lp.inner_pc + 1)),
                                    Tok(lp.inner_pc + 3), variables),
                            Tok(lp.inner_pc + 1))
         ELSE variables' = variables /\ output' # output
    /\ AtBodyBAU =>
         /\ variables' = variables
         /\ LET r == PrintText(Tok(lp.inner_pc + 1), variables, <<>>)
            IN IF r.k = "panic" THEN status' = "panic"
               ELSE IF Quoted(Tok(lp.inner_pc + 1)) \/ Bound(variables, Tok(lp.inner_pc + 1))
               THEN output' = output \o r.val
               ELSE output' # output

\* C25: a declaration, a reassignment or a print in a loop body that does not
\* mention the counter placeholder has the effect the same statement has at top
\* level in the same environment: the same binding is made or none, the same
\* line is printed, and a diagnostic is appended in the same cases (the wording
\* of a diagnostic is not compared). (The loop-body CO of a text or boolean
\* refutes it.)
C25_BodyAsTopLevel == [][BodyAsTopLevel]_vars

-----------------------------------------------------------------------------
(* run_interpreter: the counter placeholder                                *)

\* v is `<counter + k>` for a number k
CounterPlus(v) ==
    /\ Bracketed(v)
    /\ LET parts == SplitWhitespace(Inner(v))
       IN /\ Len(parts) = 3
          /\ parts[1] = kCOUNTER
          /\ parts[2] = <<"+">>
          /\ ParseF64(parts[3]).ok

\* the k of `<counter + k>`
PlusK(v) == ParseF64(SplitWhitespace(Inner(v))[3]).n

\* a body statement is about to evaluate `<counter + k>`: a WA MOE, or a CO of a
\* number variable
AtBodyCounterWA ==
    /\ InBody /\ Tok(lp.inner_pc) = kWA /\ lp.inner_pc + 4 < lp.loop_body_end
    /\ Tok(lp.inner_pc + 1) = kMOE /\ Tok(lp.inner_pc + 3) = kEQ
    /\ CounterPlus(Tok(lp.inner_pc + 4))

AtBodyCounterCO ==
    /\ AtLoopCO /\ Tok(lp.inner_pc + 2) = kEQ
    /\ Kind(variables, Tok(lp.inner_pc + 1)) = "Num"
    /\ CounterPlus(Tok(lp.inner_pc + 3))

\* what C26 says of `<counter + k>` at top level: nothing is substituted, the
\* expression takes counter for a variable, binds its value plus k when it is a
\* number, and fails with InvalidValue when it is unbound
TopLevelCounterIsVariable ==
    (AtWAExpr \/ AtCOExpr) /\ CounterPlus(ExprToken)
                          /\ ~Bound(variables, SplitWhitespace(Inner(ExprToken))[3]) =>
        CASE Kind(variables, kCOUNTER) = "Num" ->
               /\ variables' = Insert(variables, ExprTarget,
                                      VNum(variables[kCOUNTER].n + PlusK(ExprToken)))
               /\ output' = output
          [] Kind(variables, kCOUNTER) = "None" ->
               FailsWith({"[ERROR: InvalidValue]: '"})
          [] OTHER -> TRUE

\* the step binds name to i + k and appends nothing
BindsCounterPlus(name, v) ==
    /\ variables' = Insert(variables, name, VNum(lp.i + PlusK(v)))
    /\ output' = output

\* C26: in pass i of a loop, a WA MOE x = <counter + k> or a CO of a number x
\* with <counter + k> binds x to i + k and appends nothing, whatever a variable
\* named counter holds; at top level nothing is substituted.
\* (A variable named by the numeral of i refutes it.)
C26_CounterSubstituted ==
    [][/\ AtBodyCounterWA =>
            BindsCounterPlus(Tok(lp.inner_pc + 2), Tok(lp.inner_pc + 4))
       /\ AtBodyCounterCO =>
            BindsCounterPlus(Tok(lp.inner_pc + 1), Tok(lp.inner_pc + 3))
       /\ TopLevelCounterIsVariable
      ]_vars

\* no variable is named by the numeral of i or by the numeral k of v
NoNumeralVariable(v) ==
    /\ ~Bound(variables, FmtNum(lp.i))
    /\ ~Bound(variables, SplitWhitespace(Inner(v))[3])

\* C26, amended: as above, in the passes and for the k such that no variable is
\* named by the numeral of i or of k: an operand is looked up as a variable
\* before it is read as a number.
C26_CounterSubstitutedAmended ==
    [][/\ AtBodyCounterWA /\ NoNumeralVariable(Tok(lp.inner_pc + 4)) =>
            BindsCounterPlus(Tok(lp.inner_pc + 2), Tok(lp.inner_pc + 4))
       /\ AtBodyCounterCO /\ NoNumeralVariable(Tok(lp.inner_pc + 3)) =>
            BindsCounterPlus(Tok(lp.inner_pc + 1), Tok(lp.inner_pc + 3))
       /\ TopLevelCounterIsVariable
      ]_vars

\* a loop over 1..2 has run `WA MOE x = <counter + 1>` while a variable named
\* counter held 3: x is 3, the last i plus one, not 4
C26_Witness ==
    /\ status = "done"
    /\ calls = 1
    /\ tokens = Declare(kMOE, kCOUNTER, w3) \o LoopStmt(1, 2, Declare(kMOE, wx, eCounter1))
    /\ variables[wx] = VNum(3)
    /\ variables[kCOUNTER] = VNum(3)

\* at top level the same declaration has bound x to the variable's 3 plus one
C26_WitnessTopLevel ==
    /\ status = "done"
    /\ calls = 1
    /\ tokens = Declare(kMOE, kCOUNTER, w3) \o Declare(kMOE, wy, eCounter1) \o PrintOf(wy)
    /\ variables[wy] = VNum(4)

-----------------------------------------------------------------------------
(* run_interpreter: the order in which an operand is resolved               *)

\* the number a boolean literal stands for
LiteralNumber(operand) == IF operand = kFLUFFY THEN 1 ELSE 0

\* the dispatcher is about to evaluate `<b op n>`: b a boolean literal, op one
\* of + - *, n a numeral that names no variable
AtLiteralExpr ==
    /\ AtWAExpr \/ AtCOExpr
    /\ Len(ExprParts) = 3
    /\ ExprParts[1] \in BoolLits
    /\ ExprParts[2] \in {<<"+">>, <<"-">>, <<"*">>}
    /\ ParseF64(ExprParts[3]).ok
    /\ ~Bound(variables, ExprParts[3])

\* C27: an operand spelled FLUFFY evaluates to 1 and one spelled FUZZY to 0 in
\* every environment, one that binds a variable of that name included: the
\* step binds the target to (1 or 0) op n and appends nothing.
\* (A variable named FLUFFY refutes it: the variable is looked up first.)
C27_LiteralFirst ==
    [][AtLiteralExpr =>
          /\ variables' =
                Insert(variables, ExprTarget,
                       VNum(ArithOp(ExprParts[2], LiteralNumber(ExprParts[1]),
                                    ParseF64(ExprParts[3]).n).n))
          /\ output' = output]_vars

-----------------------------------------------------------------------------
(* run_interpreter: a quote or a bracket left open at the end of the text    *)

\* the positions of c in the text, and the last of them
Positions(code, c) == {k \in 1..Len(code) : code[k] = c}
LastPosition(code, c) ==
    CHOOSE k \in Positions(code, c) : \A j \in Positions(code, c) : j <= k

\* the text ends inside a quoted string / inside a bracketed expression
\* (texts without comments; quotes and brackets are not mixed)
OpenQuote(code) ==
    /\ Cardinality(Positions(code, QUOTE)) % 2 = 1
    /\ Positions(code, ";") \cup Positions(code, "<") = {}
OpenSpan(code) ==
    /\ Cardinality(Positions(code, "<")) = 1
    /\ Positions(code, ";") \cup Positions(code, QUOTE) \cup Positions(code, ">") = {}

\* the characters from the open delimiter to the end of the text
OpenText(code) ==
    SubSeq(code, LastPosition(code, IF OpenQuote(code) THEN QUOTE ELSE "<"), Len(code))

\* the dispatcher is about to run the print, declaration or reassignment
\* whose value is the last token
AtTrailingValue ==
    /\ Running /\ should_execute
    /\ \/ Tok(pc) = kBAU /\ pc + 1 = NTok - 1
       \/ Tok(pc) = kWA /\ pc + 4 = NTok - 1 /\ Tok(pc + 3) = kEQ
       \/ Tok(pc) = kCO /\ pc + 3 = NTok - 1 /\ Tok(pc + 2) = kEQ

\* the diagnostics of a value that cannot be printed, declared or assigned
ValueDiagnostics ==
    {"[ERROR: VanishValue]: Variable couldn't be found: ",
     "[ERROR: VanishValue]: Variable could not be found in scope: ",
     "[ERROR: IncompatibleType]: KIRA does not support a nonstring",
     "[ERROR: IncompatibleType]: BAULEAN requires FLUFFY/FUZZY or a declared BAULEAN-type variable",
     "[ERROR: InvalidValue]: Invalid number/arithmetic expression",
     "[ERROR: IncompatibleType]: CO requires matching type (KIRA)",
     "[ERROR: IncompatibleType]: CO requires matching type (BAULEAN)",
     "[ERROR: IncompatibleType]: CO requires matching type (MOE)"}

\* C28: when the text ends inside a quoted string or a bracketed expression,
\* the characters from the open delimiter on are the last token; the statement
\* whose value is that token appends one diagnostic line and binds nothing;
\* and the call never panics, a lone quote as the last token included.
\* (`BAU "` refutes it: the one-character token both starts and ends with a
\* quote, and the slice [1..0] of it panics.)
C28_UnterminatedReported ==
    /\ [](OpenQuote(code_in) \/ OpenSpan(code_in) =>
            /\ status # "panic"
            /\ tokens[NTok] = OpenText(code_in))
    /\ [][(OpenQuote(code_in) \/ OpenSpan(code_in)) /\ AtTrailingValue =>
            /\ FailsWith(ValueDiagnostics)
            /\ variables' = variables]_vars

-----------------------------------------------------------------------------
(* run_interpreter: a closed quoted string                                   *)

\* the position of the j-th quote of the text, from the left
QuoteAt(code, j) ==
    CHOOSE k \in Positions(code, QUOTE) :
        Cardinality({q \in Positions(code, QUOTE) : q <= k}) = j

\* position k lies between an opening quote and the quote that closes it
InsideQuotes(code, k) ==
    /\ code[k] # QUOTE
    /\ Cardinality({q \in Positions(code, QUOTE) : q < k}) % 2 = 1

\* the quotes of the text pair up, and every bracket and every semicolon of
\* the text lies inside a pair
QuotesClosed(code) ==
    /\ Positions(code, QUOTE) # {}
    /\ Cardinality(Positions(code, QUOTE)) % 2 = 0
    /\ \A k \in Positions(code, "<") \cup Positions(code, ">") \cup Positions(code, ";") :
            InsideQuotes(code, k)

\* the quoted strings of the text, delimiters included, from left to right
QuotedSpans(code) ==
    [j \in 1..(Cardinality(Positions(code, QUOTE)) \div 2) |->
        SubSeq(code, QuoteAt(code, 2 * j - 1), QuoteAt(code, 2 * j))]

\* the tokens that start with a quote, from left to right
RECURSIVE QuoteTokens(_)
QuoteTokens(toks) ==
    IF toks = <<>> THEN <<>>
    ELSE (IF StartsWith(Head(toks), QUOTE) THEN <<Head(toks)>> ELSE <<>>)
            \o QuoteTokens(Tail(toks))

\* the text is `BAU "..."` and nothing else, and the dispatcher is at the BAU
AtPrintOfOnlyString ==
    /\ Running /\ pc = 0 /\ calls = 1
    /\ QuotesClosed(code_in)
    /\ Cardinality(Positions(code_in, QUOTE)) = 2
    /\ SubSeq(code_in, 1, 5) = kBAU \o <<" ", QUOTE>>
    /\ code_in[Len(code_in)] = QUOTE

\* C29: a closed quoted string is one token, which keeps its quotes and holds
\* exactly the characters written between them, whichever they are: whitespace,
\* '=', '<', '>' and ';' included; printing it appends exactly those characters.
\* (`BAU "a;b"` refutes it: the semicolon starts a comment inside the quotes.)
C29_QuotedVerbatim ==
    /\ [](QuotesClosed(code_in) /\ pc = StartPc(tokens) =>
            QuoteTokens(tokens) = QuotedSpans(code_in))
    /\ [][AtPrintOfOnlyString =>
            output' = output \o SubSeq(code_in, 6, Len(code_in) - 1) \o <<NL>>]_vars

\* C29, amended: as above for the quoted strings that hold no semicolon.
C29_QuotedVerbatimAmended ==
    /\ [](QuotesClosed(code_in) /\ Positions(code_in, ";") = {} /\ pc = StartPc(tokens) =>
            QuoteTokens(tokens) = QuotedSpans(code_in))
    /\ [][AtPrintOfOnlyString /\ Positions(code_in, ";") = {} =>
            output' = output \o SubSeq(code_in, 6, Len(code_in) - 1) \o <<NL>>]_vars

\* `BAU "a<b"` has been printed: the buffer gained a<b and a newline
C29_Witness ==
    /\ status = "done"
    /\ calls = 1
    /\ code_in = Source(PrintOf(<<QUOTE, "a", "<", "b", QUOTE>>))
    /\ tokens = PrintOf(<<QUOTE, "a", "<", "b", QUOTE>>)
    /\ output = output_in \o <<"a", "<", "b", NL>>

\* `BAU "a b"`: the blank between the quotes is in the token and in the buffer
C29_WitnessBlank ==
    /\ status = "done"
    /\ calls = 1
    /\ tokens = PrintOf(<<QUOTE, "a", " ", "b", QUOTE>>)
    /\ output = output_in \o <<"a", " ", "b", NL>>

-----------------------------------------------------------------------------
(* run_interpreter: '=' and bracketed expressions in the lexer               *)

\* the positions of the opening and of the closing brackets, from the left
BracketAt(code, c, j) ==
    CHOOSE k \in Positions(code, c) :
        Cardinality({q \in Positions(code, c) : q <= k}) = j
NBrackets(code) == Cardinality(Positions(code, "<"))

\* the text has no comment and no open quote, its brackets pair up one after
\* the other outside the quoted strings, and enclose neither a quote nor
\* nothing but whitespace
WellBracketed(code) ==
    /\ Positions(code, ";") = {}
    /\ Cardinality(Positions(code, QUOTE)) % 2 = 0
    /\ Cardinality(Positions(code, ">")) = NBrackets(code)
    /\ \A k \in Positions(code, "<") \cup Positions(code, ">") : ~InsideQuotes(code, k)
    /\ \A j \in 1..NBrackets(code) :
            /\ BracketAt(code, "<", j) < BracketAt(code, ">", j)
            /\ j < NBrackets(code) =>
                    BracketAt(code, ">", j) < BracketAt(code, "<", j + 1)
            /\ \A k \in BracketAt(code, "<", j)..BracketAt(code, ">", j) :
                    code[k] # QUOTE
            /\ \E k \in BracketAt(code, "<", j)..BracketAt(code, ">", j) :
                    code[k] \notin {"<", ">"} /\ ~IsWhitespace(code[k])

\* position k lies between a bracket and the bracket that closes it
InsideBrackets(code, k) ==
    \E j \in 1..NBrackets(code) :
        BracketAt(code, "<", j) < k /\ k < BracketAt(code, ">", j)

\* a '=' outside the quoted strings and the bracketed expressions
BareEq(code, k) ==
    code[k] = "=" /\ ~InsideQuotes(code, k) /\ ~InsideBrackets(code, k)

\* the text with a blank put on both sides of every bare '=' / with the
\* whitespace next to a bare '=' taken out
RECURSIVE SpreadEq(_, _)
SpreadEq(code, k) ==
    IF k > Len(code) THEN <<>>
    ELSE (IF BareEq(code, k) THEN <<" ", "=", " ">> ELSE <<code[k]>>)
            \o SpreadEq(code, k + 1)
RECURSIVE SqueezeEq(_, _)
SqueezeEq(code, k) ==
    IF k > Len(code) THEN <<>>
    ELSE (IF /\ IsWhitespace(code[k])
             /\ ~InsideQuotes(code, k) /\ ~InsideBrackets(code, k)
             /\ \/ k > 1 /\ BareEq(code, k - 1)
                \/ k < Len(code) /\ BareEq(code, k + 1)
          THEN <<>> ELSE <<code[k]>>)
            \o SqueezeEq(code, k + 1)

\* the bracketed expressions of the text from left to right, each as '<', the
\* characters between the brackets less the whitespace at the two ends, '>'
BracketedSpans(code) ==
    [j \in 1..NBrackets(code) |->
        <<"<">> \o Trim(SubSeq(code, BracketAt(code, "<", j) + 1,
                                     BracketAt(code, ">", j) - 1)) \o <<">">>]

\* the tokens that start with a bracket, from left to right
RECURSIVE BracketTokens(_)
BracketTokens(toks) ==
    IF toks = <<>> THEN <<>>
    ELSE (IF StartsWith(Head(toks), "<") THEN <<Head(toks)>> ELSE <<>>)
            \o BracketTokens(Tail(toks))

C30_WitnessInnerWhitespace ==
    /\ status = "done"
    /\ calls = 1
    /\ tokens = Declare(kMOE, wx, <<"<", "1", " ", " ", "+", " ", "2", ">">>) \o PrintOf(wx)
    /\ variables[wx] = VNum(3)

\* `WA MOE x = <1 = 2>` has been lexed: the '=' between the brackets is in
\* the token, and the declaration has failed on the operator
C30_WitnessEqInBrackets ==
    /\ status = "done"
    /\ calls = 1
    /\ tokens = Declare(kMOE, wx, Expr(<<"1">>, <<"=">>, <<"2">>))
    /\ ~Bound(variables, wx)

-----------------------------------------------------------------------------
(* main: the control keywords and the condition stack                        *)

\* the dispatcher is at NOEH
AtMainNOEH == Running /\ Tok(pc) = kNOEH

\* what a control keyword does, given the stack and the chain flag it finds
ControlStep ==
    /\ AtMainPE /\ status' = "run" =>
          /\ condition_stack' = Append(condition_stack, CondVal(Tok(pc + 1)))
          /\ block_executed' = CondVal(Tok(pc + 1))
          /\ pc' = pc + 2
    /\ AtMainROPE /\ status' = "run" =>
          /\ condition_stack' =
                Replaced(condition_stack, CondVal(Tok(pc + 1)) /\ ~block_executed)
          /\ block_executed' = (block_executed \/ CondVal(Tok(pc + 1)))
          /\ pc' = pc + 2
    /\ AtMainRO =>
          /\ condition_stack' = Replaced(condition_stack, ~block_executed)
          /\ block_executed'
          /\ pc' = pc + 1
    /\ AtMainMOCO =>
          /\ condition_stack' = <<>>
          /\ ~block_executed'
          /\ pc' = pc + 1
          /\ output' = IF suppress_class_messages THEN output
                       ELSE output \o <<"End class", NL>>
    /\ AtMainNOEH =>
          /\ status' = "done"
          /\ output' = output \o <<"Ended program with code NOEH", NL>>
          /\ condition_stack' = condition_stack
    /\ AtMainPE \/ AtMainROPE \/ AtMainRO \/ AtMainNOEH \/ AtMainMOCO =>
          variables' = variables

\* C31 (main): PE, ROPE, RO, MOCO and NOEH take effect whether the entry on
\* top of the condition stack is true or false: PE pushes its condition, ROPE
\* and RO replace the top, MOCO empties the stack, and NOEH appends the
\* termination record and ends the run, in a branch that does not execute as
\* in one that does.
C31_ControlNotGated ==
    [][/\ TopOpen => ControlStep
       /\ ~TopOpen => ControlStep]_vars

\* a NOEH in a branch whose condition is false has ended the run with the
\* termination record, before the print that follows it
C31_Witness ==
    /\ status = "done"
    /\ tokens = <<kPE, kFUZZY, kNOEH>> \o PrintOf(sA)
    /\ pc = 2
    /\ condition_stack = <<FALSE>>
    /\ output = <<"Ended program with code NOEH", NL>>

\* a PE in a branch whose condition is false has pushed its own condition
C31_WitnessNestedPE ==
    /\ status = "done"
    /\ tokens = <<kPE, kFUZZY, kPE, kFLUFFY>> \o PrintOf(sA)
    /\ condition_stack = <<FALSE, TRUE>>
    /\ output = <<"a", NL>>

\* an else in a branch whose condition is false has replaced the top
C31_WitnessElse ==
    /\ status = "done"
    /\ tokens = <<kPE, kFUZZY, kRO>> \o PrintOf(sA)
    /\ condition_stack = <<TRUE>>
    /\ output = <<"a", NL>>

====
